---- MODULE Spec2Model ----
(***************************************************************************)
(* Verification model of the resume-matching MCP server                    *)
(* (Chenjinyu/jcus.link.mcp).                                              *)
(*                                                                         *)
(* Part 1: ResumeCache (src/src/core/resume_cache.py): the LRU + TTL cache *)
(* of generated resumes with its JSON disk mirror.                         *)
(***************************************************************************)
EXTENDS Integers, Sequences, FiniteSets, TLC

\* ------------------------------------------------------------------ bounds
NumKeys == 3            \* cache keys are 1..NumKeys
NumProcs == 2           \* concurrent callers of one cache
MaxCalls == 3           \* calls made by the concurrent callers in one run
MaxTime == 2            \* the clock runs over 0..MaxTime
MaxMaxEntries == 2      \* max_entries is drawn from 0..MaxMaxEntries
MaxDiskItems == 2       \* values in the cache file found at start-up

\* Strings are sequences of one-character strings; a cache key is a string.
NoKey == <<>>
Keys == {<<ToString(i)>> : i \in 1..NumKeys}
Procs == 1..NumProcs
Times == 0..MaxTime

VARIABLES
    phase,          \* "unconstructed" | "ready" | "failed" (constructor raised)
    cache_path,     \* TRUE when a disk path is configured (self._cache_path)
    max_entries,    \* self._max_entries
    entries,        \* self._entries: the OrderedDict, oldest first
    disk,           \* content of the cache file
    now,            \* the clock read by _utcnow()
    last,           \* record of the last completed cache operation
    recency,        \* reference order: keys held, by time of last access
    run,            \* distinct keys stored since the last removal by expiry
    pc,             \* position of the process inside _persist_to_disk
    tmp,            \* content of the temporary file next to the cache file
    pPrev,          \* cache file content when the running persist began
    pNew,           \* serialized cache the running persist is writing
    lock,           \* self._lock: 0 when free, else the caller holding it
    cpc,            \* per caller: position inside get / set
    call,           \* per caller: the call in progress and its result so far
    calls,          \* number of calls made so far
    refEntries,     \* reference cache: the calls applied one at a time
    refDisk,        \* reference cache file
    keyIn,          \* two (job_description, profile_fingerprint) pairs
    keyOut,         \* the digests build_key returned for them
    db_profile,     \* profile_data rows of the author: id -> content version
    db_attrs,       \* content version of the author's personal_attributes
    ttl,            \* settings.resume_cache_ttl_seconds
    req,            \* per request: position in generate_updated_resume, locals
    origin,         \* per stored key: the data its resume was generated from
    started,        \* number of generate_updated_resume calls started
    changed,        \* number of changes made to the author's data
    prev,           \* the call that completed last
    mcp_pc,         \* position inside MCPHandler.handle_message
    mcp_request,    \* the MCPRequest being handled
    mcp_exc,        \* the exception in flight inside handle_message
    mcp_result,     \* the result dict a method handler returned
    mcp_response,   \* the MCPResponse returned to the caller
    mcp_trace,      \* what the request caused: tools run, searches, raises
    stream_pc,      \* position inside event_stream
    generated,      \* chunks the resume generator has yielded so far
    frames,         \* frames event_stream has yielded so far
    stream_exc,     \* the exception the resume generator raised, if any
    articles,       \* committed rows of the articles table
    slug_tx,        \* per connection: the add_article transaction in progress
    unix_time,      \* int(time.time())
    added,          \* number of add_article calls started
    tables,         \* committed documents, owner rows and embeddings
    tx,             \* the transaction in progress on the connection
    before,         \* committed tables when the last call began
    outcome,        \* how the last transactional call ended
    chunk_in,       \* arguments of a _chunk_text call
    chunk_out,      \* the list _chunk_text returned
    sum_in,         \* analysis and matches of two summarize_matches calls
    sum_out,        \* the MatchSummary of each
    search_in,      \* backend, stored resumes and top_k of a similarity_search call
    search_out,     \* what similarity_search returned or raised
    job_descriptions,   \* main_fastmcp._job_descriptions
    matched_resumes,    \* main_fastmcp._matched_resumes
    fm_now,         \* datetime.now() as read by the FastMCP tools
    uploads,        \* the successful uploads: returned job_id and text
    fm_out,         \* what the last list / resource read returned
    doc_rows,       \* rows of the documents table
    art_rows,       \* rows of the articles table
    db_now,         \* datetime.now() as read by the database engine
    db_last,        \* the last article / document operation and what it saw
    pg_pool,        \* VectorDatabase.pg_pool: 0 (None) or the pool it refers to
    init_pc,        \* per caller: position inside init_pool
    pool_log        \* pools created and trigger patches run so far

cacheVars == <<phase, cache_path, max_entries, entries, disk, now, last, recency, run>>
persistVars == <<pc, tmp, pPrev, pNew>>
concVars == <<lock, cpc, call, calls, refEntries, refDisk>>
keyVars == <<keyIn, keyOut>>
genVars == <<db_profile, db_attrs, ttl, req, origin, started, changed, prev>>
mcpVars == <<mcp_pc, mcp_request, mcp_exc, mcp_result, mcp_response, mcp_trace>>
streamVars == <<stream_pc, generated, frames, stream_exc>>
slugVars == <<articles, slug_tx, unix_time, added>>
txVars == <<tables, tx, before, outcome>>
chunkVars == <<chunk_in, chunk_out>>
sumVars == <<sum_in, sum_out>>
searchVars == <<search_in, search_out>>
fastVars == <<job_descriptions, matched_resumes, fm_now, uploads, fm_out>>
artVars == <<doc_rows, art_rows, db_now, db_last>>
poolVars == <<pg_pool, init_pc, pool_log>>
extVars == <<searchVars, fastVars, artVars, poolVars>>
partVars == <<mcpVars, streamVars, slugVars, txVars, chunkVars, sumVars>>
svcVars == <<partVars, extVars>>
auxVars == <<keyVars, genVars, svcVars>>
otherVars == <<persistVars, concVars, auxVars>>

\* ------------------------------------------------------- ResumeCacheEntry
\* None: the Python None returned by get (no entry has the empty key).
None == [key |-> NoKey, resume_text |-> 0, created_at |-> 0, expires_at |-> 0]

ResumeCacheEntry_notext(k, text, created, expires) ==
    [key |-> k, resume_text |-> 0, created_at |-> created, expires_at |-> expires]
ResumeCacheEntry(k, text, created, expires) ==
    [key |-> k, resume_text |-> text, created_at |-> created, expires_at |-> expires]

\* ResumeCacheEntry.is_expired: (now or _utcnow()) >= self.expires_at
is_expired_never(entry, t) == FALSE
is_expired(entry, t) == t >= entry.expires_at

\* ------------------------------------------------- OrderedDict primitives
KeyOrder(es) == [i \in 1..Len(es) |-> es[i].key]
KeySet(es) == {es[i].key : i \in 1..Len(es)}
HasKey(es, k) == k \in KeySet(es)

\* self._entries.get(key)
EntryOf(es, k) ==
    IF HasKey(es, k) THEN es[CHOOSE i \in 1..Len(es) : es[i].key = k] ELSE None

\* self._entries.pop(key, None)
pop(es, k) == SelectSeq(es, LAMBDA e : e.key # k)

\* self._entries.move_to_end(key)
move_to_end_noop(es, k) == es
move_to_end(es, k) ==
    IF HasKey(es, k) THEN Append(pop(es, k), EntryOf(es, k)) ELSE es

\* self._entries[entry.key] = entry : a present key keeps its position
setitem(es, entry) ==
    IF HasKey(es, entry.key)
    THEN [i \in 1..Len(es) |-> IF es[i].key = entry.key THEN entry ELSE es[i]]
    ELSE Append(es, entry)

\* ResumeCache._evict_if_needed: popitem(last=False) while over capacity
RECURSIVE _evict_if_needed(_, _)
_evict_if_needed(es, max) ==
    IF Len(es) > max THEN _evict_if_needed(Tail(es), max) ELSE es

\* ------------------------------------------------------------ disk format
\* datetime.isoformat() / datetime.fromisoformat(): a timestamp string is
\* either a naive ISO string carrying the time, an ISO string with a UTC
\* offset, or text that does not parse.
isoformat(t) == [fmt |-> "naive", t |-> t]
ParsesAsDate(s) == s.fmt \in {"naive", "aware"}

\* One value of the JSON object written by _persist_to_disk.
SerializeEntry(e) ==
    [shape |-> "dict", key |-> e.key, resume_text |-> e.resume_text,
     created_at |-> isoformat(e.created_at), expires_at |-> isoformat(e.expires_at)]

\* The serialized dict built by _persist_to_disk, in OrderedDict order.
Serialized(es) == [kind |-> "object", items |-> [i \in 1..Len(es) |-> SerializeEntry(es[i])]]

\* ResumeCache._persist_to_disk as one step: the target file after os.replace
_persist_to_disk_skip(path, es, file) == file
_persist_to_disk(path, es, file) == IF ~path THEN file ELSE Serialized(es)


\* ---------------------------------------------------- _load_from_disk
\* Values a cache file can hold besides well-formed entries: a value that is
\* not a dict, a dict without a required field, a dict whose "key" is a JSON
\* list; timestamps may be unparsable or carry a UTC offset.
DiskItem(shape, k, text, created, expires) ==
    [shape |-> shape, key |-> k, resume_text |-> text,
     created_at |-> created, expires_at |-> expires]

\* The try block of the loop (lines 92-103): does building the entry raise?
BuildRaises(item) ==
    \/ item.shape \in {"not_dict", "no_field"}
    \/ ~ParsesAsDate(item.created_at)
    \/ ~ParsesAsDate(item.expires_at)

\* Lines 104-105 run outside the try block: comparing the naive clock with
\* an offset-aware expiry raises, and so does inserting an unhashable key.
\* Result: [raised, entries].
LoadItem(acc, item, t) ==
    IF acc.raised \/ BuildRaises(item) THEN acc
    ELSE IF item.expires_at.fmt = "aware" THEN [acc EXCEPT !.raised = TRUE]
    ELSE LET entry == ResumeCacheEntry(item.key, item.resume_text,
                                       item.created_at.t, item.expires_at.t)
         IN  IF is_expired(entry, t) THEN acc
             ELSE IF item.shape = "list_key" THEN [acc EXCEPT !.raised = TRUE]
             ELSE [acc EXCEPT !.entries = setitem(acc.entries, entry)]

RECURSIVE LoadItems(_, _, _)
LoadItems(acc, items, t) ==
    IF items = <<>> THEN acc
    ELSE LoadItems(LoadItem(acc, Head(items), t), Tail(items), t)

\* ResumeCache._load_from_disk: [raised, entries]
_load_from_disk_noevict(path, file, t, max) ==
    IF ~path \/ file.kind \in {"missing", "unreadable", "invalid_json", "partial"}
    THEN [raised |-> FALSE, entries |-> <<>>]
    ELSE IF file.kind = "non_object" THEN [raised |-> TRUE, entries |-> <<>>]
    ELSE LoadItems([raised |-> FALSE, entries |-> <<>>], file.items, t)
_load_from_disk(path, file, t, max) ==
    IF ~path \/ file.kind \in {"missing", "unreadable", "invalid_json", "partial"}
    THEN [raised |-> FALSE, entries |-> <<>>]
    ELSE IF file.kind = "non_object" THEN [raised |-> TRUE, entries |-> <<>>]
    ELSE LET r == LoadItems([raised |-> FALSE, entries |-> <<>>], file.items, t)
         IN  IF r.raised THEN r
             ELSE [r EXCEPT !.entries = _evict_if_needed(r.entries, max)]

\* ------------------------------------------------------------- get / set
\* ResumeCache.get under the lock: [entries, result, persist]; persist says
\* whether _persist_to_disk is called with the new entries.
CacheGet_keep(es, k, t) ==
    LET entry == EntryOf(es, k)
    IN  IF entry = None \/ is_expired(entry, t)
        THEN [entries |-> es, result |-> None, persist |-> FALSE]
        ELSE [entries |-> move_to_end(es, k), result |-> entry, persist |-> FALSE]
CacheGet(es, k, t) ==
    LET entry == EntryOf(es, k)
    IN  IF entry = None THEN [entries |-> es, result |-> None, persist |-> FALSE]
        ELSE IF is_expired(entry, t)
        THEN [entries |-> pop(es, k), result |-> None, persist |-> TRUE]
        ELSE [entries |-> move_to_end(es, k), result |-> entry, persist |-> FALSE]

\* ResumeCache.set under the lock: [entries, stored, persist]
CacheSet_nocheck(es, entry, t, max) ==
    [entries |-> _evict_if_needed(move_to_end(setitem(es, entry), entry.key), max),
     stored |-> TRUE, persist |-> TRUE]
CacheSet(es, entry, t, max) ==
    IF is_expired(entry, t) THEN [entries |-> es, stored |-> FALSE, persist |-> FALSE]
    ELSE [entries |-> _evict_if_needed(move_to_end(setitem(es, entry), entry.key), max),
          stored |-> TRUE, persist |-> TRUE]

\* =========================================================================
\* Spec: one ResumeCache over its lifetime: construction from whatever the
\* cache file holds, get and set calls, the clock, and process restarts.
\* =========================================================================
Texts == {1}

\* Values the cache file may hold when the process starts.
StartItems ==
    {DiskItem("dict", k, 1, isoformat(0), isoformat(x)) : k \in Keys, x \in Times}
    \cup {DiskItem("not_dict", NoKey, 0, isoformat(0), isoformat(0)),
          DiskItem("no_field", <<"1">>, 0, isoformat(0), isoformat(0)),
          DiskItem("dict", <<"1">>, 1, [fmt |-> "bad", t |-> 0], isoformat(MaxTime)),
          DiskItem("dict", <<"1">>, 1, isoformat(0), [fmt |-> "aware", t |-> MaxTime]),
          DiskItem("list_key", <<"1">>, 1, isoformat(0), isoformat(MaxTime))}

SeqsUpTo(S, n) == UNION {[1..m -> S] : m \in 0..n}

NoFile == [kind |-> "missing", items |-> <<>>]

StartFiles ==
    {[kind |-> k, items |-> <<>>] :
        k \in {"missing", "unreadable", "invalid_json", "non_object"}}
    \cup {[kind |-> "object", items |-> s] : s \in SeqsUpTo(StartItems, MaxDiskItems)}

NoOp ==
    [op |-> "none", key |-> NoKey, entry |-> None, result |-> None, stored |-> FALSE,
     before |-> <<>>, diskBefore |-> NoFile, at |-> 0, promoted |-> NoKey,
     wrote |-> FALSE, saved |-> <<>>, restarted |-> FALSE, first |-> <<>>]

Without(seq, k) == SelectSeq(seq, LAMBDA x : x # k)

RECURSIVE DropOldest(_, _)
DropOldest(seq, max) == IF Len(seq) > max THEN DropOldest(Tail(seq), max) ELSE seq

CacheInit ==
    /\ phase = "unconstructed"
    /\ cache_path \in BOOLEAN
    /\ max_entries \in 0..MaxMaxEntries
    /\ entries = <<>>
    /\ disk \in (IF cache_path THEN StartFiles ELSE {NoFile})
    /\ now = 0
    /\ last = NoOp
    /\ recency = <<>>
    /\ run = {}

\* Spec runs _persist_to_disk as one step: its position is not tracked.
PersistUnused ==
    /\ pc = "idle"
    /\ tmp = NoFile
    /\ pPrev = NoFile
    /\ pNew = NoFile

\* Spec and SpecPersist have a single caller: no call is ever in flight.
NoCall == [op |-> "none", key |-> NoKey, entry |-> None, result |-> None, expect |-> None]

ConcUnused ==
    /\ lock = 0
    /\ cpc = [p \in Procs |-> "idle"]
    /\ call = [p \in Procs |-> NoCall]
    /\ calls = 0
    /\ refEntries = <<>>
    /\ refDisk = NoFile

\* Outside SpecKey no digest is computed; outside SpecGen no resume is
\* generated and the author's data is not touched.
NoEarlier ==
    [pc |-> "idle", jd |-> <<>>, source |-> <<>>, key |-> NoKey, text |-> 0,
     hit |-> FALSE, alone |-> FALSE]

NoRequest ==
    [pc |-> "idle", jd |-> <<>>, use_cache |-> FALSE, matched |-> {},
     source |-> <<>>, data |-> <<>>, key |-> NoKey,
     unexpired |-> FALSE, foundText |-> 0, keysSame |-> TRUE,
     text |-> 0, hit |-> FALSE, analyzed |-> 0, generated |-> 0,
     setAt |-> 0, setExpiry |-> 0, held |-> FALSE,
     n |-> 0, after |-> 0, alone |-> FALSE, expectHit |-> FALSE, prevText |-> 0,
     earlier |-> NoEarlier]

NoPrev == NoRequest

\* Outside their own specifications the protocol handler receives no
\* request, no stream is open and the database engine is not called.
McpUnused ==
    /\ mcp_pc = "idle"
    /\ mcp_request = <<>>
    /\ mcp_exc = <<>>
    /\ mcp_result = <<>>
    /\ mcp_response = <<>>
    /\ mcp_trace = <<>>

StreamUnused ==
    /\ stream_pc = "idle"
    /\ generated = <<>>
    /\ frames = <<>>
    /\ stream_exc = <<>>

SlugUnused ==
    /\ articles = {}
    /\ slug_tx = <<>>
    /\ unix_time = 0
    /\ added = 0

TxUnused ==
    /\ tables = <<>>
    /\ tx = <<>>
    /\ before = <<>>
    /\ outcome = "none"

ChunkUnused ==
    /\ chunk_in = <<>>
    /\ chunk_out = <<>>

SumUnused ==
    /\ sum_in = <<>>
    /\ sum_out = <<>>

SearchUnused ==
    /\ search_in = <<>>
    /\ search_out = <<>>

FastUnused ==
    /\ job_descriptions = {}
    /\ matched_resumes = {}
    /\ fm_now = 0
    /\ uploads = <<>>
    /\ fm_out = <<>>

ArtUnused ==
    /\ doc_rows = {}
    /\ art_rows = {}
    /\ db_now = 0
    /\ db_last = <<>>

PoolUnused ==
    /\ pg_pool = 0
    /\ init_pc = <<>>
    /\ pool_log = <<>>

ExtUnused ==
    /\ SearchUnused
    /\ FastUnused
    /\ ArtUnused
    /\ PoolUnused

PartUnused ==
    /\ McpUnused
    /\ StreamUnused
    /\ SlugUnused
    /\ TxUnused
    /\ ChunkUnused
    /\ SumUnused

SvcUnused ==
    /\ PartUnused
    /\ ExtUnused

AuxUnused ==
    /\ SvcUnused
    /\ keyIn = <<>>
    /\ keyOut = <<>>
    /\ db_profile = <<>>
    /\ db_attrs = 0
    /\ ttl = 0
    /\ req = <<>>
    /\ origin = {}
    /\ started = 0
    /\ changed = 0
    /\ prev = NoPrev

\* ResumeCache.__init__ (lines 37-50)
Construct ==
    /\ phase = "unconstructed"
    /\ LET r == _load_from_disk(cache_path, disk, now, max_entries)
       IN  /\ phase' = IF r.raised THEN "failed" ELSE "ready"
           /\ entries' = IF r.raised THEN <<>> ELSE r.entries
           /\ recency' = IF r.raised THEN <<>> ELSE KeyOrder(r.entries)
           /\ last' = [NoOp EXCEPT !.op = "construct", !.diskBefore = disk, !.at = now,
                                   !.wrote = last.wrote,
                                   !.saved = IF last.wrote THEN last.saved
                                             ELSE KeyOrder(r.entries),
                                   !.restarted = last.op = "restart",
                                   !.first = last.first]
    /\ run' = {}
    /\ UNCHANGED <<cache_path, max_entries, disk, now>>
    /\ UNCHANGED otherVars

\* await cache.get(key)
Get(k) ==
    /\ phase = "ready"
    /\ LET r == CacheGet(entries, k, now)
       IN  /\ entries' = r.entries
           /\ disk' = IF r.persist THEN _persist_to_disk(cache_path, r.entries, disk)
                      ELSE disk
           /\ last' = [NoOp EXCEPT !.op = "get", !.key = k, !.result = r.result,
                                   !.before = entries, !.diskBefore = disk, !.at = now,
                                   !.wrote = last.wrote \/ (r.persist /\ cache_path),
                                   !.saved = IF r.persist THEN KeyOrder(r.entries)
                                             ELSE last.saved]
           /\ recency' = IF r.result # None THEN Append(Without(recency, k), k)
                         ELSE IF HasKey(entries, k) THEN Without(recency, k)
                         ELSE recency
           /\ run' = IF r.result = None /\ HasKey(entries, k) THEN {} ELSE run
    /\ UNCHANGED <<phase, cache_path, max_entries, now>>
    /\ UNCHANGED otherVars

\* await cache.set(entry)
Set(entry) ==
    /\ phase = "ready"
    /\ LET r == CacheSet(entries, entry, now, max_entries)
       IN  /\ entries' = r.entries
           /\ disk' = IF r.persist THEN _persist_to_disk(cache_path, r.entries, disk)
                      ELSE disk
           /\ last' = [NoOp EXCEPT !.op = "set", !.key = entry.key, !.entry = entry,
                                   !.stored = r.stored, !.before = entries,
                                   !.diskBefore = disk, !.at = now,
                                   !.promoted = IF last.op = "get" /\ last.result # None
                                                THEN last.key ELSE NoKey,
                                   !.wrote = last.wrote \/ (r.persist /\ cache_path),
                                   !.saved = IF r.persist THEN KeyOrder(r.entries)
                                             ELSE last.saved]
           /\ recency' = IF r.stored
                         THEN DropOldest(Append(Without(recency, entry.key), entry.key),
                                         max_entries)
                         ELSE recency
           /\ run' = IF r.stored THEN run \cup {entry.key} ELSE run
    /\ UNCHANGED <<phase, cache_path, max_entries, now>>
    /\ UNCHANGED otherVars

\* time passes
Tick ==
    /\ phase = "ready"
    /\ now < MaxTime
    /\ now' = now + 1
    /\ UNCHANGED <<phase, cache_path, max_entries, entries, disk, last, recency, run>>
    /\ UNCHANGED otherVars

\* the process exits and a new one starts on the same file
Restart ==
    /\ phase = "ready"
    /\ phase' = "unconstructed"
    /\ entries' = <<>>
    /\ last' = [NoOp EXCEPT !.op = "restart", !.wrote = last.wrote,
                            !.saved = last.saved, !.first = entries]
    /\ recency' = <<>>
    /\ run' = {}
    /\ UNCHANGED <<cache_path, max_entries, disk, now>>
    /\ UNCHANGED otherVars

SetInputs == {ResumeCacheEntry(k, x, 0, e) : k \in Keys, x \in Texts, e \in 1..(MaxTime + 1)}

Init == CacheInit /\ PersistUnused /\ ConcUnused /\ AuxUnused

Next ==
    \/ Construct
    \/ \E k \in Keys : Get(k)
    \/ \E entry \in SetInputs : Set(entry)
    \/ Tick
    \/ Restart

vars == <<cacheVars, otherVars>>

Spec == Init /\ [][Next]_vars


\* =========================================================================
\* Properties of the cache (checked under Spec)
\* =========================================================================
DiskKeys(file) == {file.items[i].key : i \in 1..Len(file.items)}

\* the entries are held in order of last access (set or successful get)
LRUOrder == KeyOrder(entries) = recency

\* a set of a new key into a full cache evicts exactly the head of the order
LRUVictim ==
    (/\ last.op = "set" /\ last.stored
     /\ ~HasKey(last.before, last.key)
     /\ Len(last.before) = max_entries)
    => IF max_entries = 0 THEN entries = <<>>
       ELSE KeySet(entries) =
                (KeySet(last.before) \cup {last.key}) \ {Head(last.before).key}

\* once max_entries + 1 distinct keys were stored the cache is exactly full
RunFull == Cardinality(run) > max_entries => Len(entries) = max_entries

\* the key promoted by the get just before a storing set survives that set
PromotedSurvives ==
    (last.op = "set" /\ last.stored /\ last.promoted # NoKey)
    => last.promoted \in KeySet(entries)

\* C1 (as stated): after storing max_entries + 1 distinct unexpired keys the
\* cache holds exactly max_entries entries, the evicted key is the least
\* recently accessed one (set and successful get are accesses), and a key
\* promoted by get is not the victim of the next eviction.
C1_AsStated ==
    phase = "ready" => (LRUOrder /\ LRUVictim /\ RunFull /\ PromotedSurvives)

\* C1 (amended): the same, the protection of a promoted key holding for
\* max_entries >= 2 (with max_entries = 1 the promoted key is the only key
\* and the next set of another key evicts it).
C1_LRU ==
    phase = "ready" =>
        (LRUOrder /\ LRUVictim /\ RunFull /\ (max_entries >= 2 => PromotedSurvives))

C1_Witness ==
    /\ phase = "ready" /\ max_entries = 2
    /\ last.op = "set" /\ last.stored
    /\ Cardinality(run) = 3
    /\ Len(last.before) = 2 /\ ~HasKey(last.before, last.key)
    /\ last.promoted = last.before[2].key
    /\ KeyOrder(entries) = <<last.promoted, last.key>>

C3_Capacity == phase = "ready" => Len(entries) <= max_entries

C3_Witness ==
    /\ phase = "ready" /\ last.op = "construct"
    /\ max_entries = 1 /\ Len(entries) = 1
    /\ disk.kind = "object" /\ Len(disk.items) = 2
    /\ disk.items[1].shape = "dict" /\ disk.items[1].expires_at = isoformat(MaxTime)
    /\ disk.items[1].key # disk.items[2].key
    /\ entries[1].key = disk.items[2].key

\* the entries of es that are not expired at time t, in the order of the
\* keys of order
Unexpired(es, t) == SelectSeq(es, LAMBDA e : ~is_expired(e, t))
InOrder(es, order) ==
    LET ks == SelectSeq(order, LAMBDA k : HasKey(es, k))
    IN  [i \in 1..Len(ks) |-> EntryOf(es, ks[i])]

\* a cache was constructed on the file the previous cache left
Reloaded == phase = "ready" /\ last.op = "construct" /\ last.restarted /\ cache_path

\* the new cache holds the previous cache's unexpired entries, in the order
\* they had when the file was written last
RoundTrip ==
    entries = InOrder(Unexpired(last.first, last.at), last.saved)

C6_ConstructNeverFails == phase # "failed"

\* C7: a set with an already expired entry changes neither the entries, nor
\* their order, nor the entry held under the same key, nor the cache file.
C7_ExpiredSetNoop ==
    (phase = "ready" /\ last.op = "set" /\ is_expired(last.entry, last.at)) =>
        /\ ~last.stored
        /\ entries = last.before
        /\ disk = last.diskBefore

C7_Witness ==
    /\ phase = "ready" /\ last.op = "set" /\ is_expired(last.entry, last.at)
    /\ HasKey(last.before, last.key)
    /\ EntryOf(last.before, last.key) # last.entry
    /\ cache_path /\ disk.kind = "object" /\ Len(entries) = 2


\* =========================================================================
\* SpecPersist: _persist_to_disk step by step (lines 108-124), with a crash
\* of the process possible between any two steps and a restart after it.
\* =========================================================================
\* tmp_path = self._cache_path.with_suffix(".tmp")
with_suffix_tmp_same(path) == path
with_suffix_tmp(path) == "tmp"

\* the file at a path, and the two files after a write to a path
FileAt(path) == IF path = "target" THEN disk ELSE tmp
WriteFile(path, content) ==
    IF path = "target"
    THEN disk' = content /\ UNCHANGED tmp
    ELSE tmp' = content /\ UNCHANGED disk

\* a file that holds only the first n values of the serialized text
Partial(file, n) == [kind |-> "partial", items |-> SubSeq(file.items, 1, n)]

PersistInit ==
    /\ phase = "ready"
    /\ cache_path = TRUE
    /\ max_entries \in 0..MaxMaxEntries
    /\ entries = <<>>
    /\ disk = NoFile
    /\ now = 0
    /\ last = NoOp
    /\ recency = <<>>
    /\ run = {}
    /\ pc = "idle"
    /\ tmp = NoFile
    /\ pPrev = NoFile
    /\ pNew = NoFile
    /\ ConcUnused
    /\ AuxUnused

\* entering _persist_to_disk with the entries es (lines 109-121)
EnterPersist(es, doPersist) ==
    IF doPersist /\ cache_path
    THEN pc' = "open" /\ pPrev' = disk /\ pNew' = Serialized(es)
    ELSE UNCHANGED <<pc, pPrev, pNew>>

\* set up to the call of _persist_to_disk (lines 69-74)
PSet(entry) ==
    /\ phase = "ready" /\ pc = "idle"
    /\ LET r == CacheSet(entries, entry, now, max_entries)
       IN  entries' = r.entries /\ EnterPersist(r.entries, r.persist)
    /\ UNCHANGED <<phase, cache_path, max_entries, disk, now, last, recency, run, tmp>>
    /\ UNCHANGED <<concVars, auxVars>>

\* get up to the call of _persist_to_disk (lines 57-62), or all of it
PGet(k) ==
    /\ phase = "ready" /\ pc = "idle"
    /\ LET r == CacheGet(entries, k, now)
       IN  entries' = r.entries /\ EnterPersist(r.entries, r.persist)
    /\ UNCHANGED <<phase, cache_path, max_entries, disk, now, last, recency, run, tmp>>
    /\ UNCHANGED <<concVars, auxVars>>

\* write_text opens the temporary file for writing, truncating it (line 123)
POpen ==
    /\ pc = "open"
    /\ WriteFile(with_suffix_tmp("target"), Partial(pNew, 0))
    /\ pc' = "write"
    /\ UNCHANGED <<phase, cache_path, max_entries, entries, now, last, recency, run,
                   pPrev, pNew>>
    /\ UNCHANGED <<concVars, auxVars>>

\* write_text writes the text piece by piece, then closes the file
PWrite ==
    /\ pc = "write"
    /\ LET path == with_suffix_tmp("target")
           n == Len(FileAt(path).items)
       IN  IF n < Len(pNew.items)
           THEN WriteFile(path, Partial(pNew, n + 1)) /\ pc' = "write"
           ELSE WriteFile(path, pNew) /\ pc' = "replace"
    /\ UNCHANGED <<phase, cache_path, max_entries, entries, now, last, recency, run,
                   pPrev, pNew>>
    /\ UNCHANGED <<concVars, auxVars>>

\* os.replace(tmp_path, self._cache_path): atomic (line 124)
PReplace ==
    /\ pc = "replace"
    /\ LET path == with_suffix_tmp("target")
       IN  IF path = "target" THEN UNCHANGED <<disk, tmp>>
           ELSE disk' = tmp /\ tmp' = NoFile
    /\ pc' = "idle"
    /\ pPrev' = pNew
    /\ UNCHANGED <<phase, cache_path, max_entries, entries, now, last, recency, run,
                   pNew>>
    /\ UNCHANGED <<concVars, auxVars>>

PTick ==
    /\ phase = "ready" /\ pc = "idle"
    /\ now < MaxTime
    /\ now' = now + 1
    /\ UNCHANGED <<phase, cache_path, max_entries, entries, disk, last, recency, run,
                   persistVars>>
    /\ UNCHANGED <<concVars, auxVars>>

\* the process dies: memory is lost, the files stay as they are
Crash ==
    /\ phase = "ready"
    /\ phase' = "unconstructed"
    /\ entries' = <<>>
    /\ pc' = "crashed"
    /\ UNCHANGED <<cache_path, max_entries, disk, now, last, recency, run,
                   tmp, pPrev, pNew>>
    /\ UNCHANGED <<concVars, auxVars>>

\* a new process constructs its cache from the cache file
PRecover ==
    /\ phase = "unconstructed" /\ pc = "crashed"
    /\ LET r == _load_from_disk(cache_path, disk, now, max_entries)
       IN  /\ phase' = IF r.raised THEN "failed" ELSE "ready"
           /\ entries' = IF r.raised THEN <<>> ELSE r.entries
    /\ pc' = "idle"
    /\ pPrev' = disk
    /\ pNew' = disk
    /\ UNCHANGED <<cache_path, max_entries, disk, now, last, recency, run, tmp>>
    /\ UNCHANGED <<concVars, auxVars>>

PersistNext ==
    \/ \E entry \in SetInputs : PSet(entry)
    \/ \E k \in Keys : PGet(k)
    \/ POpen
    \/ PWrite
    \/ PReplace
    \/ PTick
    \/ Crash
    \/ PRecover

SpecPersist == PersistInit /\ [][PersistNext]_vars

\* C4: whenever the process may crash, the cache file holds either the
\* complete serialized cache it held before the running persist or the
\* complete new one, never a partial text.
C4_CrashAtomic ==
    /\ disk \in {pPrev, pNew}
    /\ disk.kind \in {"missing", "object"}

\* a crash hit the write of the temporary file half-way: the cache file
\* still holds the complete previous cache
C4_Witness ==
    /\ pc = "crashed"
    /\ tmp.kind = "partial" /\ Len(tmp.items) = 1
    /\ Len(pNew.items) = 2
    /\ disk = pPrev /\ pPrev # pNew
    /\ disk.kind = "object" /\ Len(disk.items) = 2


\* =========================================================================
\* SpecConc: concurrent callers of get and set on one cache.  Each statement
\* executed under the lock is a step of its own, so that what keeps callers
\* apart is the lock alone.  The reference cache applies each call in one
\* piece at the step where the call reads the clock.
\* =========================================================================
\* asyncio.Lock: can the lock be taken?
LockFree_always(l) == TRUE
LockFree(l) == l = 0

ConcInit ==
    /\ phase = "ready"
    /\ cache_path = TRUE
    /\ max_entries \in 0..MaxMaxEntries
    /\ entries = <<>>
    /\ disk = NoFile
    /\ now = 0
    /\ last = NoOp
    /\ recency = <<>>
    /\ run = {}
    /\ PersistUnused
    /\ ConcUnused
    /\ AuxUnused

ConcFrame ==
    UNCHANGED <<phase, cache_path, max_entries, last, recency, run, persistVars, auxVars>>

\* positions at which a caller is inside `async with self._lock`
Inside == {"in", "g_pop", "g_move", "s_insert", "s_move", "s_evict", "persist", "release"}

\* a caller invokes get(key)
CallGet(p, k) ==
    /\ cpc[p] = "idle" /\ calls < MaxCalls
    /\ cpc' = [cpc EXCEPT ![p] = "waiting"]
    /\ call' = [call EXCEPT ![p] = [NoCall EXCEPT !.op = "get", !.key = k]]
    /\ calls' = calls + 1
    /\ UNCHANGED <<lock, refEntries, refDisk, entries, disk, now>>
    /\ ConcFrame

\* a caller invokes set(entry)
CallSet(p, entry) ==
    /\ cpc[p] = "idle" /\ calls < MaxCalls
    /\ cpc' = [cpc EXCEPT ![p] = "waiting"]
    /\ call' = [call EXCEPT ![p] = [NoCall EXCEPT !.op = "set", !.key = entry.key,
                                                  !.entry = entry]]
    /\ calls' = calls + 1
    /\ UNCHANGED <<lock, refEntries, refDisk, entries, disk, now>>
    /\ ConcFrame

\* async with self._lock (lines 57, 69)
Acquire(p) ==
    /\ cpc[p] = "waiting"
    /\ LockFree(lock)
    /\ lock' = p
    /\ cpc' = [cpc EXCEPT ![p] = "in"]
    /\ UNCHANGED <<call, calls, refEntries, refDisk, entries, disk, now>>
    /\ ConcFrame

\* get, lines 58-61: look the key up and test the expiry
GLookup(p) ==
    /\ cpc[p] = "in" /\ call[p].op = "get"
    /\ LET entry == EntryOf(entries, call[p].key)
           ref == CacheGet(refEntries, call[p].key, now)
       IN  /\ cpc' = [cpc EXCEPT ![p] =
                        IF entry = None THEN "release"
                        ELSE IF is_expired(entry, now) THEN "g_pop" ELSE "g_move"]
           /\ call' = [call EXCEPT ![p].expect = ref.result,
                                   ![p].result = IF entry = None \/ is_expired(entry, now)
                                                 THEN None ELSE entry]
           /\ refEntries' = ref.entries
           /\ refDisk' = IF ref.persist
                         THEN _persist_to_disk(cache_path, ref.entries, refDisk)
                         ELSE refDisk
    /\ UNCHANGED <<lock, calls, entries, disk, now>>
    /\ ConcFrame

\* get, line 62
GPop(p) ==
    /\ cpc[p] = "g_pop"
    /\ entries' = pop(entries, call[p].key)
    /\ cpc' = [cpc EXCEPT ![p] = "persist"]
    /\ UNCHANGED <<lock, call, calls, refEntries, refDisk, disk, now>>
    /\ ConcFrame

\* get, line 65
GMove(p) ==
    /\ cpc[p] = "g_move"
    /\ entries' = move_to_end(entries, call[p].key)
    /\ cpc' = [cpc EXCEPT ![p] = "release"]
    /\ UNCHANGED <<lock, call, calls, refEntries, refDisk, disk, now>>
    /\ ConcFrame

\* set, lines 70-71: test the expiry of the entry given
SCheck(p) ==
    /\ cpc[p] = "in" /\ call[p].op = "set"
    /\ LET ref == CacheSet(refEntries, call[p].entry, now, max_entries)
       IN  /\ cpc' = [cpc EXCEPT ![p] =
                        IF is_expired(call[p].entry, now) THEN "release" ELSE "s_insert"]
           /\ refEntries' = ref.entries
           /\ refDisk' = IF ref.persist
                         THEN _persist_to_disk(cache_path, ref.entries, refDisk)
                         ELSE refDisk
    /\ UNCHANGED <<lock, call, calls, entries, disk, now>>
    /\ ConcFrame

\* set, line 72
SInsert(p) ==
    /\ cpc[p] = "s_insert"
    /\ entries' = setitem(entries, call[p].entry)
    /\ cpc' = [cpc EXCEPT ![p] = "s_move"]
    /\ UNCHANGED <<lock, call, calls, refEntries, refDisk, disk, now>>
    /\ ConcFrame

\* set, line 73
SMove(p) ==
    /\ cpc[p] = "s_move"
    /\ entries' = move_to_end(entries, call[p].key)
    /\ cpc' = [cpc EXCEPT ![p] = "s_evict"]
    /\ UNCHANGED <<lock, call, calls, refEntries, refDisk, disk, now>>
    /\ ConcFrame

\* set, line 74
SEvict(p) ==
    /\ cpc[p] = "s_evict"
    /\ entries' = _evict_if_needed(entries, max_entries)
    /\ cpc' = [cpc EXCEPT ![p] = "persist"]
    /\ UNCHANGED <<lock, call, calls, refEntries, refDisk, disk, now>>
    /\ ConcFrame

\* lines 63 and 75
CPersist(p) ==
    /\ cpc[p] = "persist"
    /\ disk' = _persist_to_disk(cache_path, entries, disk)
    /\ cpc' = [cpc EXCEPT ![p] = "release"]
    /\ UNCHANGED <<lock, call, calls, refEntries, refDisk, entries, now>>
    /\ ConcFrame

\* leaving the `async with` block: the lock is released, the call returns
Release(p) ==
    /\ cpc[p] = "release"
    /\ lock' = 0
    /\ cpc' = [cpc EXCEPT ![p] = "returned"]
    /\ UNCHANGED <<call, calls, refEntries, refDisk, entries, disk, now>>
    /\ ConcFrame

\* the caller takes the result and is ready for its next call
Return(p) ==
    /\ cpc[p] = "returned"
    /\ cpc' = [cpc EXCEPT ![p] = "idle"]
    /\ call' = [call EXCEPT ![p] = NoCall]
    /\ UNCHANGED <<lock, calls, refEntries, refDisk, entries, disk, now>>
    /\ ConcFrame

CTick ==
    /\ now < MaxTime
    /\ now' = now + 1
    /\ UNCHANGED <<concVars, entries, disk>>
    /\ ConcFrame

ConcSetInputs == {ResumeCacheEntry(k, 1, 0, e) : k \in Keys, e \in {1, MaxTime + 1}}

ConcNext ==
    \/ \E p \in Procs, k \in Keys : CallGet(p, k)
    \/ \E p \in Procs, entry \in ConcSetInputs : CallSet(p, entry)
    \/ \E p \in Procs : Acquire(p)
    \/ \E p \in Procs : GLookup(p)
    \/ \E p \in Procs : GPop(p)
    \/ \E p \in Procs : GMove(p)
    \/ \E p \in Procs : SCheck(p)
    \/ \E p \in Procs : SInsert(p)
    \/ \E p \in Procs : SMove(p)
    \/ \E p \in Procs : SEvict(p)
    \/ \E p \in Procs : CPersist(p)
    \/ \E p \in Procs : Release(p)
    \/ \E p \in Procs : Return(p)
    \/ CTick

SpecConc == ConcInit /\ [][ConcNext]_vars

\* C5: every call returns what the reference cache returned for it, and
\* whenever no caller is inside the lock the entries, their order and the
\* cache file equal the reference's; a cache that holds an inserted entry
\* not yet followed by its eviction step is seen by the inserting caller only.
C5_Linearizable ==
    /\ \A p \in Procs : cpc[p] = "returned" => call[p].result = call[p].expect
    /\ (\A p \in Procs : cpc[p] \notin Inside) =>
            (entries = refEntries /\ disk = refDisk)
    /\ \A p, q \in Procs :
            (cpc[p] \in {"s_move", "s_evict"} /\ p # q) => cpc[q] \notin Inside

\* a get returned an entry while another caller's set, called before the
\* get returned, had evicted nothing yet and waits for the lock
C5_Witness ==
    \E p, q \in Procs :
        /\ p # q
        /\ cpc[p] = "s_evict" /\ Len(entries) > max_entries
        /\ cpc[q] = "waiting" /\ call[q].op = "get"
        /\ HasKey(entries, call[q].key)
        /\ call[q].key = Head(entries).key


\* =========================================================================
\* SpecKey: ResumeCache.build_key applied to two input pairs
\* =========================================================================
MaxJdLen == 2           \* longest job description tried
MaxFpLen == 1           \* longest fingerprint string tried

Alphabet == {" ", "a", "|"}

\* str.strip(): leading and trailing whitespace removed
RECURSIVE lstrip(_)
lstrip(str) == IF str # <<>> /\ Head(str) = " " THEN lstrip(Tail(str)) ELSE str

RECURSIVE rstrip(_)
rstrip(str) ==
    IF str # <<>> /\ str[Len(str)] = " " THEN rstrip(SubSeq(str, 1, Len(str) - 1))
    ELSE str

strip(str) == rstrip(lstrip(str))

\* sha256(...).hexdigest(), taken as injective: the digest determines the
\* text hashed, and it is made of hex digits only (no blank, no "|")
hexdigest(text) == [i \in 1..Len(text) |-> "x" \o text[i]]

\* ResumeCache.build_key (lines 52-54)
build_key_nosep(job_description, profile_fingerprint) ==
    hexdigest(strip(job_description) \o profile_fingerprint)
build_key(job_description, profile_fingerprint) ==
    hexdigest(strip(job_description) \o <<"|">> \o profile_fingerprint)

KeyInit ==
    /\ keyIn \in [jd1 : SeqsUpTo(Alphabet, MaxJdLen), fp1 : SeqsUpTo(Alphabet, MaxFpLen),
                  jd2 : SeqsUpTo(Alphabet, MaxJdLen), fp2 : SeqsUpTo(Alphabet, MaxFpLen)]
    /\ keyOut = <<>>
    /\ phase = "unconstructed"
    /\ cache_path = FALSE
    /\ max_entries = 0
    /\ entries = <<>>
    /\ disk = NoFile
    /\ now = 0
    /\ last = NoOp
    /\ recency = <<>>
    /\ run = {}
    /\ PersistUnused
    /\ ConcUnused
    /\ db_profile = <<>>
    /\ db_attrs = 0
    /\ ttl = 0
    /\ req = <<>>
    /\ origin = {}
    /\ started = 0
    /\ changed = 0
    /\ prev = NoPrev
    /\ SvcUnused

BuildKeys ==
    /\ keyOut = <<>>
    /\ keyOut' = <<build_key(keyIn.jd1, keyIn.fp1), build_key(keyIn.jd2, keyIn.fp2)>>
    /\ UNCHANGED <<keyIn, cacheVars, persistVars, concVars, genVars, svcVars>>

KeyNext == BuildKeys

SpecKey == KeyInit /\ [][KeyNext]_vars

\* C8 (as stated): equal pairs give equal digests, and two pairs that differ
\* in the job description or in the fingerprint give different digests.
C8_AsStated ==
    keyOut # <<>> =>
        (keyOut[1] = keyOut[2] <=> (keyIn.jd1 = keyIn.jd2 /\ keyIn.fp1 = keyIn.fp2))

\* C8 (amended): for fingerprints without "|" (hex digests), the digests are
\* equal exactly when the job descriptions are equal after trimming
\* surrounding whitespace and the fingerprints are equal.
NoSeparator(str) == \A i \in 1..Len(str) : str[i] # "|"

C8_KeySensitive ==
    (keyOut # <<>> /\ NoSeparator(keyIn.fp1) /\ NoSeparator(keyIn.fp2)) =>
        (keyOut[1] = keyOut[2] <=>
            (strip(keyIn.jd1) = strip(keyIn.jd2) /\ keyIn.fp1 = keyIn.fp2))

C8_Witness ==
    /\ keyOut # <<>>
    /\ keyIn.jd1 = <<"a", "|">> /\ keyIn.jd2 = <<"a">>
    /\ keyIn.fp1 = <<"a">> /\ keyIn.fp2 = <<"a">>
    /\ keyOut[1] # keyOut[2]


\* =========================================================================
\* SpecGen: ResumeService.generate_updated_resume with a profile service
\* (src/src/services/resume_service.py lines 231-335), requests interleaving
\* at their awaits, the author's data changing in between.
\* =========================================================================
NumProfiles == 2        \* profile_data rows of the author
MaxVersion == 1         \* each row's content is one of versions 0..MaxVersion
NumReqs == 2            \* requests that can be in flight together
MaxStarted == 2         \* calls of generate_updated_resume in one run
MaxChanges == 1         \* changes made to the author's data in one run
MaxTtl == 1             \* resume_cache_ttl_seconds is drawn from 0..MaxTtl
MaxGenEntries == 1      \* max_entries of the service's cache: 0..MaxGenEntries
MaxGenTime == 1         \* the clock of SpecGen runs over 0..MaxGenTime

ListLimit == 100        \* get_profile_data_list / get_personal_attributes: limit

ProfileIds == 1..NumProfiles
Reqs == 1..NumReqs
JobDescs == {<<"a">>}

\* ids in ascending order (rows come back ordered by display_order)
RECURSIVE SortedIds(_)
SortedIds(S) ==
    IF S = {} THEN <<>>
    ELSE LET m == CHOOSE x \in S : \A y \in S : x <= y
         IN  <<m>> \o SortedIds(S \ {m})

Take(seq, n) == SubSeq(seq, 1, IF Len(seq) < n THEN Len(seq) ELSE n)

Rows(ids) == [i \in 1..Len(ids) |-> [id |-> ids[i], v |-> db_profile[ids[i]]]]

\* ProfileService.get_profile_data_by_ids (profile_service.py lines 47-59)
get_profile_data_by_ids(ids) == Rows(SortedIds(ids))

\* VectorDatabase.get_profile_data_list (vector_database.py lines 1198-1227)
get_profile_data_list == Take(Rows(SortedIds(ProfileIds)), ListLimit)

\* ProfileService.get_resume_source (profile_service.py lines 61-75)
get_resume_source(profile_ids) ==
    [profile_data |-> IF profile_ids # {} THEN get_profile_data_by_ids(profile_ids)
                      ELSE get_profile_data_list,
     personal_attributes |-> db_attrs]

\* _stable_json (profile_service.py lines 13-14): the JSON text of the
\* profile_data list and the personal_attributes list
RECURSIVE RowsText(_)
RowsText(rows) ==
    IF rows = <<>> THEN <<>>
    ELSE <<ToString(Head(rows).id), ":", ToString(Head(rows).v), ",">>
         \o RowsText(Tail(rows))

_stable_json(profile_data, personal_attributes) ==
    RowsText(profile_data) \o <<";", ToString(personal_attributes)>>

\* ProfileService.fingerprint_resume_source (profile_service.py lines 77-84)
fingerprint_resume_source_noattrs(resume_source) ==
    hexdigest(RowsText(resume_source.profile_data))
fingerprint_resume_source(resume_source) ==
    hexdigest(_stable_json(resume_source.profile_data,
                           resume_source.personal_attributes))

Snapshot == [profile |-> db_profile, attrs |-> db_attrs]

GenInit ==
    /\ phase = "ready"
    /\ cache_path = TRUE
    /\ max_entries \in 0..MaxGenEntries
    /\ entries = <<>>
    /\ disk = NoFile
    /\ now = 0
    /\ last = NoOp
    /\ recency = <<>>
    /\ run = {}
    /\ PersistUnused
    /\ ConcUnused
    /\ keyIn = <<>>
    /\ keyOut = <<>>
    /\ db_profile = [i \in ProfileIds |-> 0]
    /\ db_attrs = 0
    /\ ttl \in 0..MaxTtl
    /\ req = [r \in Reqs |-> NoRequest]
    /\ origin = {}
    /\ started = 0
    /\ changed = 0
    /\ prev = NoPrev
    /\ SvcUnused

GenFrame ==
    UNCHANGED <<phase, cache_path, max_entries, last, recency, run,
                persistVars, concVars, keyVars, svcVars, ttl>>

\* lines 238-253: generate_updated_resume is called; the profile search
\* returns some of the author's rows and summarize_matches has the LLM
\* analyze the job description.  Request slots are interchangeable: a call
\* takes the lowest idle one.
Start(r, jd, use_cache, ids) ==
    /\ req[r].pc = "idle" /\ started < MaxStarted
    /\ \A q \in Reqs : q < r => req[q].pc # "idle"
    /\ started' = started + 1
    /\ req' = [req EXCEPT ![r] =
                 [NoRequest EXCEPT !.pc = "lookup", !.jd = jd, !.use_cache = use_cache,
                                   !.matched = ids, !.analyzed = 1,
                                   !.n = started + 1,
                                   !.after = prev.n,
                                   !.alone = \A q \in Reqs : req[q].pc = "idle"]]
    /\ UNCHANGED <<db_profile, db_attrs, origin, changed, prev, entries, disk, now>>
    /\ GenFrame

\* what a returning call leaves for the next one to return: the call that
\* returned before it
Earlier(p) ==
    [pc |-> p.pc, jd |-> p.jd, source |-> p.source, key |-> p.key, text |-> p.text,
     hit |-> p.hit, alone |-> p.alone]

\* lines 282-284: the cache is consulted only `if use_cache`
lookup_cache_always(use_cache, es, cache_key, t) == CacheGet(es, cache_key, t)
lookup_cache(use_cache, es, cache_key, t) ==
    IF use_cache THEN CacheGet(es, cache_key, t)
    ELSE [entries |-> es, result |-> None, persist |-> FALSE]

\* lines 270-296: read the resume source, derive the key, consult the cache;
\* on a hit the call returns the cached text
Lookup(r) ==
    /\ req[r].pc = "lookup"
    /\ LET resume_source == get_resume_source(req[r].matched)
           cache_key == build_key(req[r].jd, fingerprint_resume_source(resume_source))
           held == EntryOf(entries, cache_key)
           fresh == held # None /\ now < held.expires_at
           g == lookup_cache(req[r].use_cache, entries, cache_key, now)
           successive == /\ req[r].alone /\ req[r].after = prev.n
                         /\ \A q \in Reqs \ {r} : req[q].pc = "idle"
           looked == [req[r] EXCEPT
                !.pc = IF g.result # None THEN "done" ELSE "generate",
                !.source = resume_source,
                !.data = Snapshot,
                !.key = cache_key,
                !.unexpired = fresh,
                !.foundText = IF fresh THEN held.resume_text ELSE 0,
                !.keysSame = KeySet(g.entries) = KeySet(entries),
                !.hit = g.result # None,
                !.text = IF g.result # None THEN g.result.resume_text ELSE 0,
                !.expectHit = /\ successive /\ req[r].use_cache
                              /\ prev.pc = "done" /\ prev.use_cache /\ ~prev.hit
                              /\ prev.jd = req[r].jd
                              /\ prev.source = resume_source
                              /\ now < prev.setExpiry,
                !.prevText = IF successive THEN prev.text ELSE 0]
       IN  /\ entries' = g.entries
           /\ disk' = IF g.persist THEN _persist_to_disk(cache_path, g.entries, disk)
                      ELSE disk
           /\ IF g.result # None
              THEN /\ req' = [req EXCEPT ![r] = NoRequest]
                   /\ prev' = [looked EXCEPT !.earlier = Earlier(prev)]
              ELSE req' = [req EXCEPT ![r] = looked] /\ prev' = prev
    /\ UNCHANGED <<db_profile, db_attrs, origin, started, changed, now>>
    /\ GenFrame

\* lines 298-312: generate_resume_from_source(stream=False) returns a text;
\* the texts of different generations are told apart by their number
Generate(r) ==
    /\ req[r].pc = "generate"
    /\ req' = [req EXCEPT ![r].pc = "store", ![r].text = req[r].n,
                          ![r].generated = req[r].generated + 1]
    /\ UNCHANGED <<db_profile, db_attrs, origin, started, changed, prev,
                   entries, disk, now>>
    /\ GenFrame

\* the LLM call raises LLMServiceException: the call fails, nothing is stored
GenerateFails(r) ==
    /\ req[r].pc = "generate"
    /\ req' = [req EXCEPT ![r] = NoRequest]
    /\ UNCHANGED <<db_profile, db_attrs, origin, started, changed, prev,
                   entries, disk, now>>
    /\ GenFrame

\* lines 314-335: store the entry and return it tagged as not a cache hit
Store(r) ==
    /\ req[r].pc = "store"
    /\ LET entry == ResumeCacheEntry(req[r].key, req[r].text, now, now + ttl)
           s == CacheSet(entries, entry, now, max_entries)
       IN  /\ entries' = s.entries
           /\ disk' = IF s.persist THEN _persist_to_disk(cache_path, s.entries, disk)
                      ELSE disk
           /\ prev' = [req[r] EXCEPT !.pc = "done", !.hit = FALSE,
                                     !.setAt = now, !.setExpiry = entry.expires_at,
                                     !.held = EntryOf(s.entries, entry.key) = entry,
                                     !.earlier = Earlier(prev)]
           /\ origin' = IF s.stored
                        THEN {o \in origin : o.key # entry.key}
                             \cup {[key |-> entry.key, jd |-> req[r].jd,
                                    source |-> req[r].source, data |-> req[r].data]}
                        ELSE origin
    /\ req' = [req EXCEPT ![r] = NoRequest]
    /\ UNCHANGED <<db_profile, db_attrs, started, changed, now>>
    /\ GenFrame

\* a profile_data row of the author is edited
UpdateProfile(id, v) ==
    /\ changed < MaxChanges
    /\ v # db_profile[id]
    /\ db_profile' = [db_profile EXCEPT ![id] = v]
    /\ changed' = changed + 1
    /\ UNCHANGED <<db_attrs, req, origin, started, prev, entries, disk, now>>
    /\ GenFrame

\* the author's personal_attributes are edited
UpdateAttributes(v) ==
    /\ changed < MaxChanges
    /\ v # db_attrs
    /\ db_attrs' = v
    /\ changed' = changed + 1
    /\ UNCHANGED <<db_profile, req, origin, started, prev, entries, disk, now>>
    /\ GenFrame

GTick ==
    /\ now < MaxGenTime
    /\ now' = now + 1
    /\ UNCHANGED <<genVars, entries, disk>>
    /\ UNCHANGED <<phase, cache_path, max_entries, last, recency, run,
                   persistVars, concVars, keyVars, svcVars>>

GenNext ==
    \/ \E r \in Reqs, jd \in JobDescs, use_cache \in BOOLEAN, ids \in SUBSET ProfileIds :
            Start(r, jd, use_cache, ids)
    \/ \E r \in Reqs : Lookup(r)
    \/ \E r \in Reqs : Generate(r)
    \/ \E r \in Reqs : GenerateFails(r)
    \/ \E r \in Reqs : Store(r)
    \/ \E id \in ProfileIds, v \in 0..MaxVersion : UpdateProfile(id, v)
    \/ \E v \in 0..MaxVersion : UpdateAttributes(v)
    \/ GTick

SpecGen == GenInit /\ [][GenNext]_vars


\* ---------------------------------------------- properties of SpecGen
\* prev is the call that returned last, with what it saw and did
Returned == prev.pc = "done"

\* the requests that have read their resume source and derived their key
Keyed == {req[r] : r \in {q \in Reqs : req[q].pc \in {"generate", "store"}}}
         \cup (IF Returned THEN {prev} ELSE {})

\* C9 (as stated): a call that returns cache_hit = true returns a resume
\* generated from the author's profile_data and personal_attributes as they
\* are when the call reads them: any change to them changes the key.
C9_AsStated ==
    (Returned /\ prev.hit) =>
        \E o \in origin : o.key = prev.key /\ o.data = prev.data

\* C9 (amended): any change to the resume source of the call (the matched
\* profile_data rows, or the listed rows when none matched, and the
\* personal_attributes) changes the fingerprint and the key, so a call that
\* returns cache_hit = true returns a resume generated from a resume source
\* equal to the one it read.
C9_SourceFingerprint ==
    /\ (Returned /\ prev.hit) =>
            \E o \in origin : o.key = prev.key /\ o.source = prev.source
    /\ \A o \in origin : \A q \in Keyed :
            (q.jd = o.jd /\ q.source # o.source) => q.key # o.key

C9_Witness ==
    /\ Returned /\ prev.use_cache /\ ~prev.hit
    /\ max_entries = 1 /\ ttl = 1 /\ now = 0 /\ prev.n = 2
    /\ \E o \in origin :
          /\ o.jd = prev.jd /\ o.key # prev.key
          /\ Len(o.source.profile_data) = Len(prev.source.profile_data)
          /\ \A i \in 1..Len(o.source.profile_data) :
                o.source.profile_data[i].id = prev.source.profile_data[i].id
          /\ o.source.personal_attributes # prev.source.personal_attributes

\* C10 (as stated): with use_cache, an unexpired entry for the key is
\* returned as a hit without any LLM call and without changing the set of
\* keys held; otherwise the resume is generated once, stored with expiry
\* ttl later and returned as a miss; two successive identical calls within
\* the TTL with unchanged resume source give miss then hit, same text.
C10_AsStated ==
    (Returned /\ prev.use_cache) =>
        /\ prev.unexpired =>
              /\ prev.hit /\ prev.text = prev.foundText
              /\ prev.generated = 0 /\ prev.analyzed = 0
              /\ prev.keysSame
        /\ ~prev.unexpired =>
              /\ ~prev.hit /\ prev.generated = 1
              /\ prev.setExpiry = prev.setAt + ttl
              /\ prev.held
        /\ prev.expectHit => (prev.hit /\ prev.text = prev.prevText)

\* C10 (amended): on a hit generate_resume_from_source is not called (the
\* LLM analysis of summarize_matches ran before the lookup); on a miss the
\* entry passed to set is held afterwards when the TTL is positive and
\* max_entries >= 1; miss-then-hit needs max_entries >= 1.
C10_CachedGeneration ==
    (Returned /\ prev.use_cache) =>
        /\ prev.analyzed = 1
        /\ prev.unexpired =>
              /\ prev.hit /\ prev.text = prev.foundText
              /\ prev.generated = 0
              /\ prev.keysSame
        /\ ~prev.unexpired =>
              /\ ~prev.hit /\ prev.generated = 1
              /\ prev.setExpiry = prev.setAt + ttl
              /\ (ttl > 0 /\ max_entries >= 1) => prev.held
        /\ (prev.expectHit /\ max_entries >= 1) =>
              (prev.hit /\ prev.text = prev.prevText)

C10_Witness ==
    /\ Returned /\ prev.use_cache
    /\ prev.expectHit /\ prev.hit
    /\ prev.n = 2 /\ prev.text = 1 /\ prev.prevText = 1
    /\ prev.generated = 0

\* C27 (as stated): a call with use_cache=false does not read the cache
\* (its lookup leaves the held keys alone and is never a hit), generates the
\* resume once, returns cache_hit=false, and the entry it passed to set is
\* the entry held under the key afterwards.
C27_AsStated ==
    (Returned /\ ~prev.use_cache) =>
        /\ ~prev.hit /\ prev.keysSame
        /\ prev.generated = 1
        /\ prev.setExpiry = prev.setAt + ttl
        /\ prev.held

\* C27 (amended): as above, but the entry passed to set is held afterwards
\* (replacing the entry found under the key) when the TTL is positive and
\* max_entries >= 1; with a TTL of 0 set returns without storing, with
\* max_entries 0 the entry is evicted at once.
C27_NoCacheRead ==
    (Returned /\ ~prev.use_cache) =>
        /\ ~prev.hit /\ prev.keysSame
        /\ prev.generated = 1
        /\ prev.setExpiry = prev.setAt + ttl
        /\ (ttl > 0 /\ max_entries >= 1) => prev.held

\* a call with use_cache=false found a fresh entry of another generation
\* under its key, generated anyway and replaced it
C27_Witness ==
    /\ Returned /\ ~prev.use_cache /\ ~prev.hit
    /\ prev.unexpired /\ prev.foundText = 1
    /\ prev.generated = 1 /\ prev.text = 2
    /\ prev.held
    /\ EntryOf(entries, prev.key).resume_text = 2

\* the two calls of a run have both returned, for the same job description
\* and the same resume source
BothReturned ==
    /\ started = 2 /\ Returned /\ prev.earlier.pc = "done"
    /\ \A r \in Reqs : req[r].pc = "idle"
    /\ prev.jd = prev.earlier.jd /\ prev.source = prev.earlier.source

EntriesUnder(k) == {i \in 1..Len(entries) : entries[i].key = k}

\* a hit returns what an earlier set stored and the lookup found unexpired
HitFromEarlierSet ==
    /\ (Returned /\ prev.hit) =>
           /\ prev.unexpired /\ prev.text = prev.foundText
           /\ \E o \in origin : o.key = prev.key
    /\ (BothReturned /\ prev.hit) =>
           /\ ~prev.earlier.hit /\ prev.earlier.text = prev.text

\* C29 (as stated): once the calls for one job description and one resume
\* source have all returned, however they interleaved, the cache holds
\* exactly one entry under their key and its resume_text is the text one of
\* them returned; a call returns cache_hit=true only if its lookup found an
\* entry stored by a set that completed earlier.
C29_AsStated ==
    /\ BothReturned =>
           /\ Cardinality(EntriesUnder(prev.key)) = 1
           /\ EntryOf(entries, prev.key).resume_text \in {prev.text, prev.earlier.text}
    /\ HitFromEarlierSet

\* C29 (amended): the cache holds at most one entry under the key, exactly
\* one when the TTL is positive and max_entries >= 1, and an entry held
\* carries the text one of the calls returned.
C29_ConcurrentCalls ==
    /\ BothReturned =>
           /\ Cardinality(EntriesUnder(prev.key)) <= 1
           /\ (ttl > 0 /\ max_entries >= 1) =>
                  Cardinality(EntriesUnder(prev.key)) = 1
           /\ \A i \in EntriesUnder(prev.key) :
                  entries[i].resume_text \in {prev.text, prev.earlier.text}
    /\ HitFromEarlierSet

\* two overlapping calls both missed and generated; the one that set last
\* left its text in the cache
C29_Witness ==
    /\ BothReturned
    /\ ~prev.alone \/ ~prev.earlier.alone
    /\ ~prev.hit /\ ~prev.earlier.hit
    /\ prev.use_cache /\ prev.text # prev.earlier.text
    /\ Cardinality(EntriesUnder(prev.key)) = 1
    /\ EntryOf(entries, prev.key).resume_text = prev.text

\* =========================================================================
\* Part 6: the MCP protocol handler (src/src/handers/mcp_handler.py), the
\* tool registry (src/src/tools/__init__.py) and its three tools.  One
\* request is handled at a time; each step is one call of the handler's code.
\* =========================================================================
MaxRequestId == 1       \* request ids are 0..MaxRequestId

\* Python None, and the value of a key that a dict does not hold.
PyNone == "<None>"

RequestIds == 0..MaxRequestId
Methods == {"initialize", "tools/list", "tools/call", "resources/list"}

\* ToolRegistry._register_default_tools
RegisteredTools ==
    {"search_matching_resumes", "analyze_job_description", "generate_resume"}
ToolNames == RegisteredTools \cup {"no_such_tool", ""}

\* values of the "top_k" argument: absent, not an integer, or an integer
TopKs == {0, 1, 20, 21, 25}
TopKArgs ==
    {[kind |-> "absent", v |-> 0], [kind |-> "str", v |-> 0]}
        \cup {[kind |-> "int", v |-> k] : k \in TopKs}

\* The "arguments" value of a tools/call: absent, not a JSON object
\* ("malformed") or an object with some of the keys the tools read.
ArgumentObjects ==
    [kind : {"object"}, job_description : {PyNone, "", "jd"}, top_k : TopKArgs,
     matched_resumes : {"absent", "empty", "valid", "invalid"}, stream : BOOLEAN]
EmptyArguments ==
    [kind |-> "object", job_description |-> PyNone,
     top_k |-> [kind |-> "absent", v |-> 0],
     matched_resumes |-> "absent", stream |-> FALSE]
Arguments ==
    ArgumentObjects \cup {[EmptyArguments EXCEPT !.kind = "absent"],
                          [EmptyArguments EXCEPT !.kind = "malformed"]}

\* request.params or {}: params without a key holds PyNone for it
NoParams == [name |-> PyNone, arguments |-> [EmptyArguments EXCEPT !.kind = "absent"]]
CallParams == [name : ToolNames \cup {PyNone}, arguments : Arguments]

MCPRequest(id, method, params) == [id |-> id, method |-> method, params |-> params]
Requests ==
    {MCPRequest(id, m, NoParams) : id \in RequestIds, m \in Methods}
        \cup {MCPRequest(id, "tools/call", p) : id \in RequestIds, p \in CallParams}

\* MCPError, MCPResponse (src/src/schemas/mcp_schema.py); an Optional field
\* left out holds NoError / NoResult.
NoError == [code |-> 0, message |-> ""]
NoResult == [kind |-> "None", isError |-> FALSE, content |-> <<>>]
MCPError(code, message) == [code |-> code, message |-> message]
MCPResponse(id, result, error) == [id |-> id, result |-> result, error |-> error]

\* src/src/core/exceptions.py
NoException == [kind |-> "none", code |-> 0, message |-> ""]
Exception(message) == [kind |-> "Exception", code |-> 0, message |-> message]
ToolNotFoundException(tool_name) ==
    [kind |-> "ToolNotFoundException", code |-> -32601,
     message |-> "Tool not found: " \o tool_name]
ToolExecutionException(tool_name, error) ==
    [kind |-> "ToolExecutionException", code |-> -32603,
     message |-> "Tool execution failed for '" \o tool_name \o "': " \o error]
InvalidParametersException(message) ==
    [kind |-> "InvalidParametersException", code |-> -32602,
     message |-> "Invalid parameters: " \o message]
KnownKinds ==
    {"ToolNotFoundException", "ToolExecutionException", "InvalidParametersException"}

\* BaseTool.create_text_response
create_text_response_ok(text, is_error) ==
    [kind |-> "ToolResponse", isError |-> FALSE,
     content |-> <<[type |-> "text", text |-> text]>>]
create_text_response(text, is_error) ==
    [kind |-> "ToolResponse", isError |-> is_error,
     content |-> <<[type |-> "text", text |-> text]>>]

\* `not job_description`: None and the empty string are both falsy
Falsy(value) == value \in {PyNone, ""}

\* search_tool.py line 68: not isinstance(top_k, int) or top_k < 1 or top_k > 20
valid_top_k_any(top_k) == TRUE
valid_top_k(top_k) == top_k.kind = "int" /\ top_k.v >= 1 /\ top_k.v <= 20

\* What the resume service does when a tool calls it, and str(e) if it raises.
ServiceOutcomes == {"ok", "raises"}
ServiceError == "resume service failed"

\* A tool's execute returns its ToolResponse; the model also records how
\* often it called the resume service's search and whether it failed.
Executed(response, searches, failed) ==
    [response |-> response, searches |-> searches, failed |-> failed]

\* SearchMatchingResumesTool.execute
search_execute(arguments, svc) ==
    LET job_description == arguments.job_description
        top_k == IF arguments.top_k.kind = "absent"
                 THEN [kind |-> "int", v |-> 5]
                 ELSE arguments.top_k
    IN  IF Falsy(job_description)
        THEN Executed(create_text_response("Error: job_description is required", TRUE),
                      0, TRUE)
        ELSE IF ~valid_top_k(top_k)
        THEN Executed(create_text_response(
                          "Error: top_k must be an integer between 1 and 20", TRUE),
                      0, TRUE)
        ELSE IF svc = "raises"
        THEN Executed(create_text_response("Error: " \o ServiceError, TRUE), 1, TRUE)
        ELSE Executed(create_text_response("{matches, total_found}", FALSE), 1, FALSE)

\* AnalyzeJobDescriptionTool.execute
analysis_execute(arguments, svc) ==
    IF Falsy(arguments.job_description)
    THEN Executed(create_text_response("Error: job_description is required", TRUE),
                  0, TRUE)
    ELSE IF svc = "raises"
    THEN Executed(create_text_response("Error: " \o ServiceError, TRUE), 0, TRUE)
    ELSE Executed(create_text_response("{analysis}", FALSE), 0, FALSE)

\* GenerateResumeTool.execute
generation_execute(arguments, svc) ==
    IF Falsy(arguments.job_description)
    THEN Executed(create_text_response("Error: job_description is required", TRUE),
                  0, TRUE)
    ELSE IF arguments.matched_resumes \in {"absent", "empty"}
    THEN Executed(create_text_response(
                      "Error: matched_resumes is required and must not be empty", TRUE),
                  0, TRUE)
    ELSE IF arguments.matched_resumes = "invalid"
    THEN Executed(create_text_response("Error: Invalid resume data format", TRUE),
                  0, TRUE)
    ELSE IF arguments.stream
    THEN Executed(create_text_response(
                      "STREAM_RESPONSE: Use /generate-resume-stream HTTP endpoint for streaming",
                      FALSE),
                  0, FALSE)
    ELSE IF svc = "raises"
    THEN Executed(create_text_response("Error: " \o ServiceError, TRUE), 0, TRUE)
    ELSE Executed(create_text_response("resume", FALSE), 0, FALSE)

execute(tool, arguments, svc) ==
    CASE tool = "search_matching_resumes" -> search_execute(arguments, svc)
      [] tool = "analyze_job_description" -> analysis_execute(arguments, svc)
      [] OTHER -> generation_execute(arguments, svc)

\* ToolRegistry.get_tool: self._tools.get(name)
get_tool_any(name) ==
    IF name \in RegisteredTools THEN name ELSE "search_matching_resumes"
get_tool(name) == IF name \in RegisteredTools THEN name ELSE PyNone

\* ToolCallParams(**params): name is a required string, arguments a dict
\* that defaults to {}
ParamsValid(params) == params.name # PyNone /\ params.arguments.kind # "malformed"
ValidationError == Exception("validation error for ToolCallParams")
ParsedArguments(params) ==
    IF params.arguments.kind = "absent" THEN EmptyArguments ELSE params.arguments

\* params.get("name", "unknown")
AttemptedTool(params) == IF params.name = PyNone THEN "unknown" ELSE params.name

\* _handle_tools_call, lines 146-152: ToolNotFoundException passes, every
\* other exception is raised again as ToolExecutionException
rewrap_none(e, params) == e
rewrap(e, params) ==
    IF e.kind = "ToolNotFoundException"
    THEN e
    ELSE ToolExecutionException(AttemptedTool(params), e.message)

\* handle_message, lines 66-95: the except clauses.  The value is the list
\* of responses returned: empty when the exception leaves handle_message.
catch_known_only(e, id) ==
    IF e.kind \in KnownKinds
    THEN <<MCPResponse(id, NoResult, MCPError(e.code, e.message))>>
    ELSE <<>>
catch(e, id) ==
    IF e.kind \in KnownKinds
    THEN <<MCPResponse(id, NoResult, MCPError(e.code, e.message))>>
    ELSE <<MCPResponse(id, NoResult,
                       MCPError(-32603, "Internal error: " \o e.message))>>

NoTrace ==
    [executed |-> <<>>, searches |-> 0, tool_failed |-> FALSE,
     raised |-> NoException, unexpected |-> FALSE]

\* Outside SpecMcp nothing else of the program runs.
CoreUnused ==
    /\ phase = "unconstructed"
    /\ cache_path = FALSE
    /\ max_entries = 0
    /\ entries = <<>>
    /\ disk = NoFile
    /\ now = 0
    /\ last = NoOp
    /\ recency = <<>>
    /\ run = {}
    /\ PersistUnused
    /\ ConcUnused
    /\ keyIn = <<>>
    /\ keyOut = <<>>
    /\ db_profile = <<>>
    /\ db_attrs = 0
    /\ ttl = 0
    /\ req = <<>>
    /\ origin = {}
    /\ started = 0
    /\ changed = 0
    /\ prev = NoPrev

coreVars == <<cacheVars, persistVars, concVars, keyVars, genVars>>

McpInit ==
    /\ mcp_pc = "idle"
    /\ mcp_request = MCPRequest(0, "", NoParams)
    /\ mcp_exc = NoException
    /\ mcp_result = NoResult
    /\ mcp_response = <<>>
    /\ mcp_trace = NoTrace
    /\ CoreUnused
    /\ ExtUnused
    /\ StreamUnused
    /\ SlugUnused
    /\ TxUnused
    /\ ChunkUnused
    /\ SumUnused

McpFrame == UNCHANGED <<coreVars, extVars, streamVars, slugVars, txVars, chunkVars, sumVars>>

\* handle_message is called (lines 37-44)
HandleMessage(request) ==
    /\ mcp_pc \in {"idle", "responded"}
    /\ mcp_pc' = "dispatch"
    /\ mcp_request' = request
    /\ mcp_exc' = NoException
    /\ mcp_result' = NoResult
    /\ mcp_response' = <<>>
    /\ mcp_trace' = NoTrace
    /\ McpFrame

\* _handle_initialize (lines 97-113); building the result may raise
HandleInitialize(fails) ==
    /\ mcp_pc = "dispatch"
    /\ mcp_request.method = "initialize"
    /\ IF fails
       THEN /\ mcp_exc' = Exception("initialize failed")
            /\ mcp_trace' = [mcp_trace EXCEPT !.unexpected = TRUE]
            /\ mcp_pc' = "raised"
            /\ UNCHANGED mcp_result
       ELSE /\ mcp_result' = [kind |-> "InitializeResult", isError |-> FALSE,
                              content |-> <<>>]
            /\ mcp_pc' = "return"
            /\ UNCHANGED <<mcp_exc, mcp_trace>>
    /\ UNCHANGED <<mcp_request, mcp_response>>
    /\ McpFrame

\* _handle_tools_list (lines 115-125); building the result may raise
HandleToolsList(fails) ==
    /\ mcp_pc = "dispatch"
    /\ mcp_request.method = "tools/list"
    /\ IF fails
       THEN /\ mcp_exc' = Exception("tools/list failed")
            /\ mcp_trace' = [mcp_trace EXCEPT !.unexpected = TRUE]
            /\ mcp_pc' = "raised"
            /\ UNCHANGED mcp_result
       ELSE /\ mcp_result' = [kind |-> "ToolsListResult", isError |-> FALSE,
                              content |-> <<>>]
            /\ mcp_pc' = "return"
            /\ UNCHANGED <<mcp_exc, mcp_trace>>
    /\ UNCHANGED <<mcp_request, mcp_response>>
    /\ McpFrame

\* lines 52-59: any other method
MethodNotFound ==
    /\ mcp_pc = "dispatch"
    /\ mcp_request.method \notin {"initialize", "tools/list", "tools/call"}
    /\ mcp_response' =
           <<MCPResponse(mcp_request.id, NoResult,
                         MCPError(-32601, "Method not found: " \o mcp_request.method))>>
    /\ mcp_pc' = "responded"
    /\ UNCHANGED <<mcp_request, mcp_exc, mcp_result, mcp_trace>>
    /\ McpFrame

\* _handle_tools_call line 132: ToolCallParams(**params)
ParseToolCall ==
    /\ mcp_pc = "dispatch"
    /\ mcp_request.method = "tools/call"
    /\ IF ParamsValid(mcp_request.params)
       THEN /\ mcp_pc' = "lookup"
            /\ UNCHANGED <<mcp_exc, mcp_trace>>
       ELSE /\ mcp_exc' = rewrap(ValidationError, mcp_request.params)
            /\ mcp_trace' = [mcp_trace EXCEPT !.raised = ValidationError]
            /\ mcp_pc' = "raised"
    /\ UNCHANGED <<mcp_request, mcp_result, mcp_response>>
    /\ McpFrame

\* lines 137-139: the registry lookup
LookupTool ==
    /\ mcp_pc = "lookup"
    /\ LET name == mcp_request.params.name
       IN  IF get_tool(name) = PyNone
           THEN /\ mcp_exc' = rewrap(ToolNotFoundException(name), mcp_request.params)
                /\ mcp_trace' = [mcp_trace EXCEPT !.raised = ToolNotFoundException(name)]
                /\ mcp_pc' = "raised"
           ELSE /\ mcp_pc' = "execute"
                /\ UNCHANGED <<mcp_exc, mcp_trace>>
    /\ UNCHANGED <<mcp_request, mcp_result, mcp_response>>
    /\ McpFrame

\* lines 142-144: tool.execute(tool_call.arguments), response.dict()
ExecuteTool(svc) ==
    /\ mcp_pc = "execute"
    /\ LET tool == get_tool(mcp_request.params.name)
           done == execute(tool, ParsedArguments(mcp_request.params), svc)
       IN  /\ mcp_result' = done.response
           /\ mcp_trace' = [mcp_trace EXCEPT !.executed = Append(@, tool),
                                             !.searches = @ + done.searches,
                                             !.tool_failed = done.failed]
    /\ mcp_pc' = "return"
    /\ UNCHANGED <<mcp_request, mcp_exc, mcp_response>>
    /\ McpFrame

\* lines 61-64: return MCPResponse(id=request.id, result=result)
ReturnResult ==
    /\ mcp_pc = "return"
    /\ mcp_response' = <<MCPResponse(mcp_request.id, mcp_result, NoError)>>
    /\ mcp_pc' = "responded"
    /\ UNCHANGED <<mcp_request, mcp_exc, mcp_result, mcp_trace>>
    /\ McpFrame

\* lines 66-95: the except clauses
CatchException ==
    /\ mcp_pc = "raised"
    /\ mcp_response' = catch(mcp_exc, mcp_request.id)
    /\ mcp_pc' = "responded"
    /\ UNCHANGED <<mcp_request, mcp_exc, mcp_result, mcp_trace>>
    /\ McpFrame

McpNext ==
    \/ \E request \in Requests : HandleMessage(request)
    \/ \E fails \in BOOLEAN : HandleInitialize(fails)
    \/ \E fails \in BOOLEAN : HandleToolsList(fails)
    \/ MethodNotFound
    \/ ParseToolCall
    \/ LookupTool
    \/ \E svc \in ServiceOutcomes : ExecuteTool(svc)
    \/ ReturnResult
    \/ CatchException

SpecMcp == McpInit /\ [][McpNext]_vars

\* ---------------------------------------------- properties of SpecMcp
Responded == mcp_pc = "responded"
IsToolsCall == mcp_request.method = "tools/call"
TheResponse == mcp_response[1]
ErrorCodes == {-32601, -32602, -32603}

\* C11: handle_message is exception-proof.  Every request is answered by
\* exactly one MCPResponse with the request's id that carries either a
\* result or an error, never both and never neither; an error has one of
\* the three fixed codes, and an exception of no known kind gives -32603
\* with "Internal error: " and the stringified exception.
C11_ExceptionProof ==
    /\ ~Responded => mcp_response = <<>>
    /\ Responded =>
        /\ Len(mcp_response) = 1
        /\ TheResponse.id = mcp_request.id
        /\ (TheResponse.result = NoResult) # (TheResponse.error = NoError)
        /\ TheResponse.error # NoError => TheResponse.error.code \in ErrorCodes
        /\ mcp_trace.unexpected =>
              TheResponse.error = MCPError(-32603, "Internal error: " \o mcp_exc.message)

C11_Witness ==
    /\ Responded
    /\ mcp_trace.unexpected
    /\ mcp_request.id = 1
    /\ Len(mcp_response) = 1
    /\ TheResponse.id = 1
    /\ TheResponse.error.code = -32603

\* C12 as stated: every tools/call naming a tool that is not registered is
\* answered with code -32601 and "Tool not found: {name}", and runs no tool.
NamesUnknownTool ==
    /\ IsToolsCall
    /\ mcp_request.params.name # PyNone
    /\ mcp_request.params.name \notin RegisteredTools

C12_AsStated ==
    (Responded /\ NamesUnknownTool) =>
        /\ TheResponse.error =
               MCPError(-32601, "Tool not found: " \o mcp_request.params.name)
        /\ mcp_trace.executed = <<>>

\* C12: a tools/call whose params parse (a name, and arguments that are an
\* object or absent) and whose name is not registered is answered with code
\* -32601 and "Tool not found: {name}"; no tool is executed.  With
\* arguments that are not an object the answer is the -32603 of C15, and
\* no tool is executed either.
C12_ToolNotFound ==
    (Responded /\ NamesUnknownTool) =>
        /\ mcp_trace.executed = <<>>
        /\ TheResponse.result = NoResult
        /\ ParamsValid(mcp_request.params) =>
              TheResponse.error =
                  MCPError(-32601, "Tool not found: " \o mcp_request.params.name)
        /\ ~ParamsValid(mcp_request.params) => TheResponse.error.code = -32603

C12_Witness ==
    /\ Responded
    /\ NamesUnknownTool
    /\ mcp_request.params.name = "no_such_tool"
    /\ ParamsValid(mcp_request.params)
    /\ TheResponse.error.code = -32601
    /\ mcp_trace.executed = <<>>

\* C13 as stated: search_matching_resumes with top_k outside 1..20 or an
\* empty job_description is answered with the InvalidParameters error
\* (-32602) and the resume service's search is not invoked.
SearchRejected ==
    /\ IsToolsCall
    /\ ParamsValid(mcp_request.params)
    /\ mcp_request.params.name = "search_matching_resumes"
    /\ LET arguments == ParsedArguments(mcp_request.params)
       IN  \/ arguments.job_description = ""
           \/ /\ arguments.top_k.kind = "int"
              /\ (arguments.top_k.v < 1 \/ arguments.top_k.v > 20)

C14_ToolFailureIsResult ==
    (Responded /\ IsToolsCall /\ mcp_trace.tool_failed) =>
        /\ TheResponse.error = NoError
        /\ TheResponse.result.kind = "ToolResponse"
        /\ TheResponse.result.isError
        /\ Len(TheResponse.result.content) = 1
        /\ TheResponse.result.content[1].type = "text"
        /\ TheResponse.result.content[1].text # ""

C14_Witness ==
    /\ Responded
    /\ IsToolsCall
    /\ mcp_trace.tool_failed
    /\ mcp_trace.executed = <<"generate_resume">>
    /\ TheResponse.result.isError
    /\ TheResponse.result.content[1].text = "Error: " \o ServiceError

\* C15: in tools/call every exception other than ToolNotFound is reported
\* as ToolExecutionFailed: code -32603 and a message naming the attempted
\* tool, which is the name given in the params (also when the params do
\* not parse) and "unknown" when the params give no name.
RaisedInCall ==
    /\ IsToolsCall
    /\ mcp_trace.raised.kind \notin {"none", "ToolNotFoundException"}

C15_ToolExecutionFailed ==
    (Responded /\ RaisedInCall) =>
        /\ TheResponse.result = NoResult
        /\ TheResponse.error.code = -32603
        /\ TheResponse.error.message =
               "Tool execution failed for '" \o AttemptedTool(mcp_request.params)
                   \o "': " \o mcp_trace.raised.message

C15_Witness ==
    /\ Responded
    /\ RaisedInCall
    /\ mcp_request.params.name = "generate_resume"
    /\ mcp_request.params.arguments.kind = "malformed"
    /\ TheResponse.error.message =
           "Tool execution failed for 'generate_resume': validation error for ToolCallParams"

\* =========================================================================
\* Part 7: the /generate-resume-stream endpoint (src/server.py, lines
\* 197-232).  event_stream forwards the chunks of the resume generator as
\* server-sent-event frames; the generator may raise at any point.
\* =========================================================================
MaxChunks == 4          \* chunks one generation yields at most

ChunkTexts == {"a", "b", "c"}
StreamErrors == {Exception("llm failed"), Exception("connection reset")}

\* the payload of a frame: json.dumps of a one-key dict
ChunkFrame(chunk) == [key |-> "chunk", value |-> chunk]
DoneFrame == [key |-> "done", value |-> "true"]
ErrorFrame(message) == [key |-> "error", value |-> message]
Terminal(frame) == frame.key \in {"done", "error"}

\* lines 221-223: except Exception as e: yield the error frame.  The value
\* is the frames yielded so far and where event_stream is afterwards.
on_exception_reraise(fs, e) == [frames |-> fs, pc |-> "escaped"]
on_exception(fs, e) == [frames |-> Append(fs, ErrorFrame(e.message)), pc |-> "closed"]

StreamInit ==
    /\ stream_pc = "idle"
    /\ generated = <<>>
    /\ frames = <<>>
    /\ stream_exc = NoException
    /\ CoreUnused
    /\ ExtUnused
    /\ McpUnused
    /\ SlugUnused
    /\ TxUnused
    /\ ChunkUnused
    /\ SumUnused

StreamFrame == UNCHANGED <<coreVars, extVars, mcpVars, slugVars, txVars, chunkVars, sumVars>>

\* generate_resume_stream: a request opens a new stream (lines 198-232)
OpenStream ==
    /\ stream_pc \in {"idle", "closed"}
    /\ stream_pc' = "streaming"
    /\ generated' = <<>>
    /\ frames' = <<>>
    /\ stream_exc' = NoException
    /\ StreamFrame

\* lines 210-216: the generator yields a chunk, event_stream yields its frame
YieldChunk(chunk) ==
    /\ stream_pc = "streaming"
    /\ Len(generated) < MaxChunks
    /\ generated' = Append(generated, chunk)
    /\ frames' = Append(frames, ChunkFrame(chunk))
    /\ UNCHANGED <<stream_pc, stream_exc>>
    /\ StreamFrame

\* lines 218-219: the generator is exhausted
Complete ==
    /\ stream_pc = "streaming"
    /\ frames' = Append(frames, DoneFrame)
    /\ stream_pc' = "closed"
    /\ UNCHANGED <<generated, stream_exc>>
    /\ StreamFrame

\* lines 221-223: the generator raises instead of yielding
GeneratorRaises(e) ==
    /\ stream_pc = "streaming"
    /\ stream_exc' = e
    /\ LET after == on_exception(frames, e)
       IN  /\ frames' = after.frames
           /\ stream_pc' = after.pc
    /\ UNCHANGED generated
    /\ StreamFrame

StreamNext ==
    \/ OpenStream
    \/ \E chunk \in ChunkTexts : YieldChunk(chunk)
    \/ Complete
    \/ \E e \in StreamErrors : GeneratorRaises(e)

SpecStream == StreamInit /\ [][StreamNext]_vars

\* ---------------------------------------------- properties of SpecStream
\* C16: the frames of a stream are one chunk frame per generated chunk, in
\* generation order, followed once the stream has ended by exactly one
\* terminal frame: done if the generation completed, error with the
\* message if it raised.  Nothing follows the terminal frame, done and
\* error never both occur, and no exception leaves event_stream.
C16_StreamFrames ==
    /\ stream_pc # "escaped"
    /\ \A i \in 1..Len(generated) :
          i <= Len(frames) /\ frames[i] = ChunkFrame(generated[i])
    /\ stream_pc \in {"idle", "streaming"} => Len(frames) = Len(generated)
    /\ stream_pc = "closed" =>
          /\ Len(frames) = Len(generated) + 1
          /\ frames[Len(frames)] =
                 IF stream_exc = NoException
                 THEN DoneFrame
                 ELSE ErrorFrame(stream_exc.message)
    /\ \A i \in 1..Len(frames) : Terminal(frames[i]) => i = Len(frames)

C16_Witness ==
    /\ stream_pc = "closed"
    /\ generated = <<"a", "b">>
    /\ frames = <<ChunkFrame("a"), ChunkFrame("b"), ErrorFrame("llm failed")>>

\* =========================================================================
\* Part 8: article slugs (src/src/core/vector_database.py, add_article
\* lines 601-677, _create_slug and _create_unique_slug lines 1909-1956).
\* Each connection runs add_article in its own transaction; a transaction
\* reads the rows committed so far, and its own rows are seen by the
\* others once it has committed.  The source declares no uniqueness
\* constraint on the articles table: the SELECT of _create_unique_slug is
\* the only guard.
\* =========================================================================
NumConns == 2           \* connections running add_article at the same time
NumUsers == 2           \* user ids are 1..NumUsers
MaxAdds == 3            \* add_article calls in one run
MaxSeconds == 1         \* seconds that pass during one run

\* line 1949: if counter > 1000
AttemptLimit == 1000
\* line 1916: return slug[:100]
SlugLength == 100

Conns == 1..NumConns
UserIds == 1..NumUsers
Titles == {<<"A", "!">>, <<"a", "-", "1">>}

\* str.lower() on the characters of the titles
lower(c) == IF c = "A" THEN "a" ELSE c
LowerAll(str) == [i \in 1..Len(str) |-> lower(str[i])]

\* the character class [a-z0-9]
Alnum(c) == c \in {"a", "1", "0", "2", "3", "4", "5", "6", "7", "8", "9"}

RECURSIVE SkipNonAlnum(_)
SkipNonAlnum(str) ==
    IF str # <<>> /\ ~Alnum(Head(str)) THEN SkipNonAlnum(Tail(str)) ELSE str

\* re.sub(r"[^a-z0-9]+", "-", slug)
RECURSIVE SubHyphen(_)
SubHyphen(str) ==
    IF str = <<>> THEN <<>>
    ELSE IF Alnum(Head(str)) THEN <<Head(str)>> \o SubHyphen(Tail(str))
    ELSE <<"-">> \o SubHyphen(SkipNonAlnum(str))

\* slug.strip("-")
RECURSIVE StripHyphens(_)
StripHyphens(str) ==
    IF str # <<>> /\ Head(str) = "-" THEN StripHyphens(Tail(str))
    ELSE IF str # <<>> /\ str[Len(str)] = "-"
    THEN StripHyphens(SubSeq(str, 1, Len(str) - 1))
    ELSE str

\* VectorDatabase._create_slug
_create_slug(title) == Take(StripHyphens(SubHyphen(LowerAll(title))), SlugLength)

\* str(n) for n >= 0, as a sequence of characters
RECURSIVE Digits(_)
Digits(n) == IF n < 10 THEN <<ToString(n)>> ELSE Digits(n \div 10) \o <<ToString(n % 10)>>

\* f"{base_slug}-{counter}"
Suffixed(base_slug, n) == base_slug \o <<"-">> \o Digits(n)

\* SELECT id FROM articles WHERE slug = $1 AND user_id = $2
SlugsOf(rows, user_id) == {r.slug : r \in {x \in rows : x.user_id = user_id}}

\* VectorDatabase._create_unique_slug.  The while loop tries the base
\* slug, then the suffixes -1 .. -(AttemptLimit - 1) in turn, and takes the
\* first that no row of the user has; when the counter passes AttemptLimit
\* it takes the timestamp suffix without a SELECT.  The rows it reads are
\* only ever added to, so the SELECTs that found a row are taken together
\* with the last one.
_create_unique_slug(title, rows, user_id, t) ==
    LET base_slug == _create_slug(title)
        taken == SlugsOf(rows, user_id)
        free == {counter \in 1..(AttemptLimit - 1) : Suffixed(base_slug, counter) \notin taken}
    IN  IF base_slug \notin taken THEN base_slug
        ELSE IF free # {}
        THEN Suffixed(base_slug, CHOOSE counter \in free : \A other \in free : counter <= other)
        ELSE Suffixed(base_slug, t)

Article(id, user_id, slug) == [id |-> id, user_id |-> user_id, slug |-> slug]

\* The articles of user 1 after AttemptLimit articles titled "A!": the base
\* slug and every counter suffix the loop tries are taken.
FullTable ==
    {Article(0, 1, _create_slug(<<"A", "!">>))}
        \cup {Article(k, 1, Suffixed(_create_slug(<<"A", "!">>), k)) :
                 k \in 1..(AttemptLimit - 1)}

NoSlugTx == [pc |-> "idle", user_id |-> 0, title |-> <<>>, slug |-> <<>>, n |-> 0]

SlugInit ==
    /\ articles \in {{}, FullTable}
    /\ slug_tx = [c \in Conns |-> NoSlugTx]
    /\ unix_time = AttemptLimit    \* a clock reading; today's exceed every counter
    /\ added = 0
    /\ CoreUnused
    /\ ExtUnused
    /\ McpUnused
    /\ StreamUnused
    /\ TxUnused
    /\ ChunkUnused
    /\ SumUnused

SlugFrame == UNCHANGED <<coreVars, extVars, mcpVars, streamVars, txVars, chunkVars, sumVars>>

\* add_article is called (lines 601-630); the free connection with the
\* lowest number takes the call
BeginAdd(c, user_id, title) ==
    /\ added < MaxAdds
    /\ slug_tx[c].pc = "idle"
    /\ \A d \in Conns : d < c => slug_tx[d].pc # "idle"
    /\ added' = added + 1
    /\ slug_tx' = [slug_tx EXCEPT ![c] =
           [pc |-> "slug", user_id |-> user_id, title |-> title,
            slug |-> <<>>, n |-> added + 1]]
    /\ UNCHANGED <<articles, unix_time>>
    /\ SlugFrame

\* line 632: slug = await self._create_unique_slug(title, conn, user_id)
CreateUniqueSlug(c) ==
    /\ slug_tx[c].pc = "slug"
    /\ slug_tx' = [slug_tx EXCEPT
           ![c].slug = _create_unique_slug(slug_tx[c].title, articles,
                                           slug_tx[c].user_id, unix_time),
           ![c].pc = "insert"]
    /\ UNCHANGED <<articles, unix_time, added>>
    /\ SlugFrame

\* lines 634-677: the document, the article and the embeddings are
\* inserted and the transaction commits
CommitAdd(c) ==
    /\ slug_tx[c].pc = "insert"
    /\ articles' = articles \cup
           {Article(AttemptLimit + slug_tx[c].n, slug_tx[c].user_id, slug_tx[c].slug)}
    /\ slug_tx' = [slug_tx EXCEPT ![c] = NoSlugTx]
    /\ UNCHANGED <<unix_time, added>>
    /\ SlugFrame

\* a statement of the transaction or an embedding call fails: rollback
AbortAdd(c) ==
    /\ slug_tx[c].pc = "insert"
    /\ slug_tx' = [slug_tx EXCEPT ![c] = NoSlugTx]
    /\ UNCHANGED <<articles, unix_time, added>>
    /\ SlugFrame

\* a second passes
NextSecond ==
    /\ unix_time < AttemptLimit + MaxSeconds
    /\ unix_time' = unix_time + 1
    /\ UNCHANGED <<articles, slug_tx, added>>
    /\ SlugFrame

SlugNext ==
    \/ \E c \in Conns, user_id \in UserIds, title \in Titles : BeginAdd(c, user_id, title)
    \/ \E c \in Conns : CreateUniqueSlug(c)
    \/ \E c \in Conns : CommitAdd(c)
    \/ \E c \in Conns : AbortAdd(c)
    \/ NextSecond

SpecSlug == SlugInit /\ [][SlugNext]_vars

\* ---------------------------------------------- properties of SpecSlug
\* C17: after any sequence of add_article calls, concurrent ones and
\* titles with more than AttemptLimit collisions included, no two articles
\* of one user have the same slug.
C17_SlugsUnique ==
    \A r1 \in articles, r2 \in articles :
        (r1.id # r2.id /\ r1.user_id = r2.user_id) => r1.slug # r2.slug

\* =========================================================================
\* Part 9: transactional writes (src/src/core/vector_database.py:
\* add_document, add_article, add_profile_data, add_personal_attribute and
\* their update counterparts).  Every statement of a call runs inside
\* `async with conn.transaction()`: the statements change the transaction's
\* view of the tables, which replaces the committed tables at commit and is
\* dropped when the block is left by an exception.
\* =========================================================================
MaxTxCalls == 2         \* transactional calls in one run
MaxTxChunks == 2        \* chunks _chunk_text cuts a content into

AddOps == {"add_document", "add_article", "add_profile_data", "add_personal_attribute"}
UpdateOps == {"update_document", "update_article", "update_profile_data",
              "update_personal_attribute"}

\* self._models_cache holds "m1"; "mX" is unknown or inactive; "m0" is a
\* model some stored embeddings were made with that _load_models did not
\* put in this engine's cache (no longer active, or its provider has no
\* client here: lines 236-242)
CachedModels == {"m1"}
StoredModels == {"m0", "m1"}
ModelLists == {<<"m1">>, <<"mX">>, <<"m1", "mX">>}

\* the table an operation owns a row in, besides documents
OwnerKind(op) ==
    CASE op \in {"add_article", "update_article"} -> "article"
      [] op \in {"add_profile_data", "update_profile_data"} -> "profile_data"
      [] op \in {"add_personal_attribute", "update_personal_attribute"} ->
            "personal_attribute"
      [] OTHER -> "none"

NoTables == [documents |-> {}, owners |-> {}, embeddings |-> {}]
NoTx == [pc |-> "idle", op |-> "none", script |-> <<>>, work |-> NoTables]
NoOutcome ==
    [last |-> "none", op |-> "none", calls |-> 0, writes |-> 0,
     doc |-> 0, recreate |-> FALSE, chunks |-> 0]

\* ---- the statements of a call
Statement(kind, id, model, chunk, total) ==
    [kind |-> kind, id |-> id, model |-> model, chunk |-> chunk, total |-> total]
InsertDocument(id) == Statement("insert_document", id, "", 0, 0)
InsertOwner(id) == Statement("insert_owner", id, "", 0, 0)
InsertOwnerWithDocument(id) == Statement("insert_owner_with_document", id, "", 0, 0)
LinkDocument(id) == Statement("link_document", id, "", 0, 0)
SelectOwner(id) == Statement("select_owner", id, "", 0, 0)
UpdateOwner(id) == Statement("update_owner", id, "", 0, 0)
UpdateDocument(id) == Statement("update_document", id, "", 0, 0)
DeleteEmbeddings(id) == Statement("delete_embeddings", id, "", 0, 0)
\* create_embedding, then INSERT INTO embeddings
InsertEmbedding(id, model, chunk, total) ==
    Statement("insert_embedding", id, model, chunk, total)

\* _insert_embeddings_for_models (lines 338-369): for each model, for each
\* chunk of enumerate(chunks), one embedding is created and inserted with
\* its chunk_index (from 0) and total_chunks
RECURSIVE ChunkStatements(_, _, _, _)
ChunkStatements(id, model, chunk, chunks) ==
    IF chunk >= chunks THEN <<>>
    ELSE <<InsertEmbedding(id, model, chunk, chunks)>>
             \o ChunkStatements(id, model, chunk + 1, chunks)

RECURSIVE _insert_embeddings_for_models(_, _, _)
_insert_embeddings_for_models(id, chunks, model_names) ==
    IF model_names = <<>> THEN <<>>
    ELSE ChunkStatements(id, Head(model_names), 0, chunks)
             \o _insert_embeddings_for_models(id, chunks, Tail(model_names))

\* SELECT DISTINCT embedding_model_id ..., then _get_model_names_from_ids:
\* the models of the document's embeddings that are in the cache
ExistingModels(t, id) ==
    IF \E e \in t.embeddings : e.document_id = id /\ e.model \in CachedModels
    THEN <<"m1">>
    ELSE <<>>

\* the document an owner row refers to (0: none, or no such row)
DocumentOf(t, kind, id) ==
    IF \E o \in t.owners : o.kind = kind /\ o.id = id
    THEN (CHOOSE o \in t.owners : o.kind = kind /\ o.id = id).document_id
    ELSE 0

\* the document a call writes: the new one, the one named, or the owner's
TargetDocument(op, t, n, target) ==
    CASE op \in AddOps -> n
      [] op = "update_document" -> target
      [] OTHER -> DocumentOf(t, OwnerKind(op), target)

\* "Recreate embeddings": delete the document's embeddings, insert new ones
Recreate(t, doc, chunks) ==
    <<DeleteEmbeddings(doc)>>
        \o _insert_embeddings_for_models(doc, chunks, ExistingModels(t, doc))

\* The statements a call runs, in order, when no statement fails.  n is the
\* id the call's new rows get; target is the row an update names.
Script(op, t, n, target, searchable, recreate, chunks, model_names) ==
    CASE op = "add_document" ->
            <<InsertDocument(n)>> \o _insert_embeddings_for_models(n, chunks, model_names)
      [] op = "add_article" ->
            <<InsertDocument(n), InsertOwnerWithDocument(n)>>
                \o _insert_embeddings_for_models(n, chunks, model_names)
      [] op \in {"add_profile_data", "add_personal_attribute"} ->
            <<InsertOwner(n)>>
                \o (IF searchable
                    THEN <<InsertDocument(n)>>
                             \o _insert_embeddings_for_models(n, chunks, model_names)
                             \o <<LinkDocument(n)>>
                    ELSE <<>>)
      [] op = "update_document" ->
            <<UpdateDocument(target)>>
                \o (IF recreate THEN Recreate(t, target, chunks) ELSE <<>>)
      [] op = "update_article" ->
            <<SelectOwner(target), UpdateOwner(target),
              UpdateDocument(DocumentOf(t, "article", target))>>
                \o (IF recreate
                    THEN Recreate(t, DocumentOf(t, "article", target), chunks)
                    ELSE <<>>)
      [] OTHER ->
            <<SelectOwner(target), UpdateOwner(target)>>
                \o (IF recreate /\ DocumentOf(t, OwnerKind(op), target) # 0
                    THEN <<UpdateDocument(DocumentOf(t, OwnerKind(op), target))>>
                             \o Recreate(t, DocumentOf(t, OwnerKind(op), target), chunks)
                    ELSE <<>>)

\* A statement that can only raise: an embedding for a model that is not in
\* the cache (lines 349-351), an update of a row that does not exist
\* (ValueError "... not found").
MustFail(s, t, kind) ==
    \/ s.kind = "insert_embedding" /\ s.model \notin CachedModels
    \/ s.kind = "select_owner" /\ ~\E o \in t.owners : o.kind = kind /\ o.id = s.id

Writes(s) == s.kind # "select_owner"

\* the transaction's view of the tables after a statement; v is the call
Apply(s, t, kind, v) ==
    CASE s.kind = "insert_document" ->
            [t EXCEPT !.documents = @ \cup {[id |-> s.id, v |-> v]}]
      [] s.kind = "insert_owner" ->
            [t EXCEPT !.owners = @ \cup
                {[kind |-> kind, id |-> s.id, document_id |-> 0, v |-> v]}]
      [] s.kind = "insert_owner_with_document" ->
            [t EXCEPT !.owners = @ \cup
                {[kind |-> kind, id |-> s.id, document_id |-> s.id, v |-> v]}]
      [] s.kind = "link_document" ->
            [t EXCEPT !.owners =
                {IF o.kind = kind /\ o.id = s.id
                 THEN [o EXCEPT !.document_id = s.id] ELSE o : o \in @}]
      [] s.kind = "update_owner" ->
            [t EXCEPT !.owners =
                {IF o.kind = kind /\ o.id = s.id THEN [o EXCEPT !.v = v] ELSE o : o \in @}]
      [] s.kind = "update_document" ->
            [t EXCEPT !.documents =
                {IF doc.id = s.id THEN [doc EXCEPT !.v = v] ELSE doc : doc \in @}]
      [] s.kind = "delete_embeddings" ->
            [t EXCEPT !.embeddings = {e \in @ : e.document_id # s.id}]
      [] s.kind = "insert_embedding" ->
            [t EXCEPT !.embeddings = @ \cup
                {[document_id |-> s.id, model |-> s.model, chunk_index |-> s.chunk,
                  total_chunks |-> s.total, v |-> v]}]
      [] OTHER -> t

\* leaving `async with conn.transaction()` by an exception: the committed
\* tables stay, the transaction's view is dropped
rollback_keep(committed, work) == work
rollback(committed, work) == committed

TxInit ==
    /\ tables = NoTables
    /\ tx = NoTx
    /\ before = NoTables
    /\ outcome = NoOutcome
    /\ CoreUnused
    /\ ExtUnused
    /\ McpUnused
    /\ StreamUnused
    /\ SlugUnused
    /\ ChunkUnused
    /\ SumUnused

TxFrame == UNCHANGED <<coreVars, extVars, mcpVars, streamVars, slugVars, chunkVars, sumVars>>

\* a transactional method is called and opens its transaction
BeginCall(op, target, searchable, recreate, chunks, model_names) ==
    /\ tx.pc = "idle"
    /\ outcome.calls < MaxTxCalls
    /\ op \in AddOps => target = 0 /\ recreate = FALSE
    /\ op \in {"add_document", "add_article"} => searchable = TRUE
    /\ op \in UpdateOps => target # 0 /\ searchable = FALSE /\ model_names = <<"m1">>
    /\ tx' = [pc |-> "running", op |-> op, work |-> tables,
              script |-> Script(op, tables, outcome.calls + 1, target, searchable,
                                recreate, chunks, model_names)]
    /\ before' = tables
    /\ outcome' = [last |-> "running", op |-> op, calls |-> outcome.calls + 1,
                   writes |-> 0, recreate |-> recreate, chunks |-> chunks,
                   doc |-> TargetDocument(op, tables, outcome.calls + 1, target)]
    /\ UNCHANGED tables
    /\ TxFrame

\* the next statement of the call succeeds
RunStatement ==
    /\ tx.pc = "running"
    /\ tx.script # <<>>
    /\ ~MustFail(Head(tx.script), tx.work, OwnerKind(tx.op))
    /\ tx' = [tx EXCEPT
           !.work = Apply(Head(tx.script), @, OwnerKind(tx.op), outcome.calls),
           !.script = Tail(@)]
    /\ outcome' = [outcome EXCEPT
           !.writes = IF Writes(Head(tx.script)) THEN @ + 1 ELSE @]
    /\ UNCHANGED <<tables, before>>
    /\ TxFrame

\* the next statement (or the commit) raises: the transaction block is left
\* by the exception
FailStatement ==
    /\ tx.pc = "running"
    /\ tables' = rollback(tables, tx.work)
    /\ tx' = NoTx
    /\ outcome' = [outcome EXCEPT !.last = "failed"]
    /\ UNCHANGED before
    /\ TxFrame

\* the block ends: COMMIT
CommitCall ==
    /\ tx.pc = "running"
    /\ tx.script = <<>>
    /\ tables' = tx.work
    /\ tx' = NoTx
    /\ outcome' = [outcome EXCEPT !.last = "committed"]
    /\ UNCHANGED before
    /\ TxFrame

TxNext ==
    \/ \E op \in AddOps \cup UpdateOps, target \in 0..MaxTxCalls,
          searchable \in BOOLEAN, recreate \in BOOLEAN,
          chunks \in 1..MaxTxChunks, model_names \in ModelLists :
            BeginCall(op, target, searchable, recreate, chunks, model_names)
    \/ RunStatement
    \/ FailStatement
    \/ CommitCall

SpecTx == TxInit /\ [][TxNext]_vars

\* ---------------------------------------------- properties of SpecTx
\* C18: transactional writes leave no partial state.  While a call is
\* running and after it has failed at any statement, the stored documents,
\* owner rows and embeddings are those stored before the call.
C18_NoPartialWrites ==
    outcome.last \in {"running", "failed"} => tables = before

C18_Witness ==
    /\ outcome.last = "failed"
    /\ outcome.op = "add_profile_data"
    /\ outcome.calls = 2
    /\ outcome.writes >= 3
    /\ tables = before
    /\ tables.documents # {}

\* =========================================================================
\* Part 10: _chunk_text (src/src/core/vector_database.py:1867-1882).
\* A text is a sequence of characters; words are what str.split() returns.
\* =========================================================================
MaxTextLen == 7         \* characters of a text
MaxChunkSize == 3       \* largest chunk_size

TextChars == {"a", "b", " "}
InputTexts == SeqsUpTo(TextChars, MaxTextLen)

\* str.split(): the maximal runs of non-whitespace characters, in order
RECURSIVE split_from(_, _, _)
split_from(text, i, word) ==
    IF i > Len(text)
    THEN IF word = <<>> THEN <<>> ELSE <<word>>
    ELSE IF text[i] = " "
         THEN (IF word = <<>> THEN <<>> ELSE <<word>>) \o split_from(text, i + 1, <<>>)
         ELSE split_from(text, i + 1, Append(word, text[i]))

split(text) == split_from(text, 1, <<>>)

\* " ".join(words)
RECURSIVE join(_)
join(words) ==
    IF words = <<>> THEN <<>>
    ELSE IF Len(words) = 1 THEN words[1]
    ELSE words[1] \o <<" ">> \o join(Tail(words))

\* words[i : i + chunk_size] with a 0-based i: slices stop at the end
Slice(words, i, n) ==
    SubSeq(words, i + 1, IF i + n > Len(words) THEN Len(words) ELSE i + n)

\* the third argument of range(0, len(words), chunk_size - overlap)
range_step_size(chunk_size, overlap) == chunk_size
range_step(chunk_size, overlap) == chunk_size - overlap

\* range(0, stop, step) from i on
RECURSIVE range_from(_, _, _)
range_from(i, stop, step) ==
    IF i >= stop THEN <<>> ELSE <<i>> \o range_from(i + step, stop, step)

\* the values of i for which a chunk is appended (`if chunk`)
ChunkStarts(text, chunk_size, overlap) ==
    LET words == split(text)
        is == range_from(0, Len(words), range_step(chunk_size, overlap))
    IN  SelectSeq(is, LAMBDA i : join(Slice(words, i, chunk_size)) # <<>>)

_chunk_text(text, chunk_size, overlap) ==
    LET words == split(text)
        is == ChunkStarts(text, chunk_size, overlap)
    IN  IF Len(words) <= chunk_size
        THEN <<text>>
        ELSE [j \in 1..Len(is) |-> join(Slice(words, is[j], chunk_size))]

ChunkInputs ==
    {[text |-> text, chunk_size |-> chunk_size, overlap |-> overlap] :
        text \in InputTexts, chunk_size \in 1..MaxChunkSize, overlap \in 0..(MaxChunkSize - 1)}

ChunkInit ==
    /\ chunk_in \in {in \in ChunkInputs : in.overlap < in.chunk_size}
    /\ chunk_out = <<>>
    /\ CoreUnused
    /\ ExtUnused
    /\ McpUnused
    /\ StreamUnused
    /\ SlugUnused
    /\ TxUnused
    /\ SumUnused

\* self._chunk_text(text, chunk_size, overlap) returns
ChunkText ==
    /\ chunk_out = <<>>
    /\ chunk_out' = <<_chunk_text(chunk_in.text, chunk_in.chunk_size, chunk_in.overlap)>>
    /\ UNCHANGED chunk_in
    /\ UNCHANGED <<coreVars, extVars, mcpVars, streamVars, slugVars, txVars, sumVars>>

ChunkNext == ChunkText

SpecChunk == ChunkInit /\ [][ChunkNext]_vars

\* ---------------------------------------------- properties of SpecChunk
Chunked == chunk_out # <<>>
TheChunks == chunk_out[1]
InWords == split(chunk_in.text)
IsLong == Len(InWords) > chunk_in.chunk_size
TheStarts == ChunkStarts(chunk_in.text, chunk_in.chunk_size, chunk_in.overlap)
\* number of input words chunks j and j + 1 have in common
Shared(j) == TheStarts[j] + Len(split(TheChunks[j])) - TheStarts[j + 1]

ShortIsWhole == ~IsLong => TheChunks = <<chunk_in.text>>
AtMostSize == \A j \in 1..Len(TheChunks) : Len(split(TheChunks[j])) <= chunk_in.chunk_size
\* every chunk is the run of input words from its start on, the first chunk
\* starts at the first word, no word is skipped between two chunks, and the
\* last chunk ends at the last word
CoversInOrder ==
    /\ Len(TheChunks) = Len(TheStarts)
    /\ Len(TheChunks) >= 1
    /\ TheStarts[1] = 0
    /\ \A j \in 1..Len(TheChunks) :
           /\ split(TheChunks[j]) # <<>>
           /\ split(TheChunks[j])
                = SubSeq(InWords, TheStarts[j] + 1,
                         TheStarts[j] + Len(split(TheChunks[j])))
    /\ \A j \in 1..(Len(TheChunks) - 1) :
           /\ TheStarts[j] < TheStarts[j + 1]
           /\ Shared(j) >= 0
    /\ TheStarts[Len(TheChunks)] + Len(split(TheChunks[Len(TheChunks)])) = Len(InWords)

\* C19 as stated: for a text of more than chunk_size words, every pair of
\* consecutive chunks has exactly `overlap` words in common (with the other
\* parts of the statement).
C19_AsStated ==
    Chunked =>
        /\ ShortIsWhole
        /\ IsLong =>
              /\ AtMostSize
              /\ CoversInOrder
              /\ \A j \in 1..(Len(TheChunks) - 1) : Shared(j) = chunk_in.overlap

\* C19: with 0 <= overlap < chunk_size, a text of at most chunk_size words is
\* returned as [text]; a longer text gives chunks of at most chunk_size
\* words that cover every input word in order, and two consecutive chunks
\* have exactly `overlap` words in common when the earlier one has
\* chunk_size words, and otherwise all the words of the later one (fewer
\* than `overlap`).
C19_ChunkText ==
    Chunked =>
        /\ ShortIsWhole
        /\ IsLong =>
              /\ AtMostSize
              /\ CoversInOrder
              /\ \A j \in 1..(Len(TheChunks) - 1) :
                    IF Len(split(TheChunks[j])) = chunk_in.chunk_size
                    THEN Shared(j) = chunk_in.overlap
                    ELSE /\ Shared(j) = Len(split(TheChunks[j + 1]))
                         /\ Shared(j) < chunk_in.overlap

C19_Witness ==
    /\ Chunked
    /\ IsLong
    /\ chunk_in.overlap = 2
    /\ Len(TheChunks) = 4
    /\ Shared(1) = 2
    /\ Shared(3) = 1

\* =========================================================================
\* Part 11: ResumeService.summarize_matches
\* (src/src/services/resume_service.py:166-206).  Similarity scores are the
\* fractions k/ScoreSteps of [0, 1] (ResumeMatch.similarity_score has ge=0,
\* le=1); the arithmetic on them is exact, a number being the pair of a
\* numerator and a positive denominator.
\* =========================================================================
MaxRequired == 2        \* entries of analysis.required_skills
MaxMatches == 2         \* matches passed to summarize_matches
ScoreSteps == 4         \* similarity scores are 0/ScoreSteps .. ScoreSteps/ScoreSteps
MaxSumCalls == 2        \* calls of summarize_matches on the same analysis

JobDescriptions == {"jd1", "jd2"}
Skills == {"Py", "py", "aws"}
\* the order sorted() puts the skill names in
SkillOrder == <<"Py", "aws", "py">>
MatchSkills == {<<>>, <<"Py">>, <<"aws", "py">>}

\* skill.lower()
keep_case(skill) == skill
lower_skill(skill) == IF skill = "Py" THEN "py" ELSE skill

ResumeMatch(skills, similarity_score) ==
    [skills |-> skills, similarity_score |-> similarity_score]
ResumeMatches == {ResumeMatch(skills, k) : skills \in MatchSkills, k \in 0..ScoreSteps}
JobAnalysis(required_skills) == [required_skills |-> required_skills]

Elems(seq) == {seq[i] : i \in 1..Len(seq)}
sorted(S) == SelectSeq(SkillOrder, LAMBDA skill : skill \in S)

Number(num, den) == [num |-> num, den |-> den]
NumLess(x, y) == x.num * y.den < y.num * x.den
\* min(a, b): b when b < a, else a
py_min(a, b) == IF NumLess(b, a) THEN b ELSE a
\* 0.7 * x + 0.3 * y
Blend(x, y) == Number(7 * x.num * y.den + 3 * y.num * x.den, 10 * x.den * y.den)

RECURSIVE sum_scores(_)
sum_scores(matches) ==
    IF matches = <<>> THEN 0
    ELSE Head(matches).similarity_score + sum_scores(Tail(matches))

\* int(round(x * 100)): round() takes the nearest integer, the even one of
\* two that are equally near
round_percent(x) ==
    LET n == 100 * x.num
        floor == n \div x.den
        rest == n % x.den
    IN  IF 2 * rest < x.den THEN floor
        ELSE IF 2 * rest > x.den THEN floor + 1
        ELSE IF floor % 2 = 0 THEN floor ELSE floor + 1

\* analysis is what analyze_job_description(job_description) returned
summarize_matches(job_description, analysis, matches) ==
    LET required_skills == {lower_skill(skill) : skill \in Elems(analysis.required_skills)}
        matched_skill_pool ==
            {lower_skill(skill) : skill \in UNION {Elems(m.skills) : m \in Elems(matches)}}
        matched_skills == sorted(required_skills \cap matched_skill_pool)
        missing_skills == sorted(required_skills \ matched_skill_pool)
        similarity_avg ==
            IF matches # <<>>
            THEN Number(sum_scores(matches), Len(matches) * ScoreSteps)
            ELSE Number(0, 1)
        skill_coverage == Number(Len(matched_skills), Cardinality(required_skills))
        match_rate ==
            IF required_skills # {}
            THEN py_min(Number(1, 1), Blend(similarity_avg, skill_coverage))
            ELSE similarity_avg
        match_rate_percent == round_percent(match_rate)
        summary ==
            IF matches = <<>> THEN <<"No strong matches found for this job description.">>
            ELSE IF required_skills # {}
            THEN <<"Match rate", match_rate_percent, "% with", Len(matched_skills),
                   "of", Cardinality(required_skills), "required skills aligned.">>
            ELSE <<"Match rate", match_rate_percent, "% based on semantic similarity.">>
    IN  [summary |-> summary,
         match_rate |-> match_rate,
         match_rate_percent |-> match_rate_percent,
         matched_skills |-> matched_skills,
         missing_skills |-> missing_skills]

SumInit ==
    /\ sum_in \in {[analysis |-> JobAnalysis(required_skills), matches |-> matches] :
                      required_skills \in SeqsUpTo(Skills, MaxRequired),
                      matches \in SeqsUpTo(ResumeMatches, MaxMatches)}
    /\ sum_out = <<>>
    /\ CoreUnused
    /\ ExtUnused
    /\ McpUnused
    /\ StreamUnused
    /\ SlugUnused
    /\ TxUnused
    /\ ChunkUnused

\* summarize_matches(job_description, matches) returns; the analysis of the
\* job description is sum_in.analysis
SummarizeMatches(job_description) ==
    /\ Len(sum_out) < MaxSumCalls
    /\ sum_out' = Append(sum_out,
           [job_description |-> job_description,
            result |-> summarize_matches(job_description, sum_in.analysis,
                                         sum_in.matches)])
    /\ UNCHANGED sum_in
    /\ UNCHANGED <<coreVars, extVars, mcpVars, streamVars, slugVars, txVars, chunkVars>>

SumNext == \E job_description \in JobDescriptions : SummarizeMatches(job_description)

SpecSum == SumInit /\ [][SumNext]_vars

\* ---------------------------------------------- properties of SpecSum
RequiredLower ==
    {IF skill = "Py" THEN "py" ELSE skill : skill \in Elems(sum_in.analysis.required_skills)}
ScoreSum == sum_scores(sum_in.matches)
NumMatches == Len(sum_in.matches)

\* C20: matched_skills and missing_skills are disjoint and together are the
\* lower-cased required skills; match_rate is the average similarity (0
\* without matches) when no skill is required, and otherwise
\* min(1, 0.7 * average + 0.3 * matched/required); match_rate_percent is the
\* integer in 0..100 nearest to 100 * match_rate; two calls with the same
\* analysis and matches return the same summary.
C20_SummarizeMatches ==
    \A c \in 1..Len(sum_out) :
        LET r == sum_out[c].result
            matched == Cardinality(Elems(r.matched_skills))
            required == Cardinality(RequiredLower)
            avgNum == IF NumMatches = 0 THEN 0 ELSE ScoreSum
            avgDen == IF NumMatches = 0 THEN 1 ELSE NumMatches * ScoreSteps
        IN  /\ Elems(r.matched_skills) \cap Elems(r.missing_skills) = {}
            /\ Elems(r.matched_skills) \cup Elems(r.missing_skills) = RequiredLower
            /\ r.match_rate.den > 0
            /\ IF required = 0
               THEN r.match_rate.num * avgDen = avgNum * r.match_rate.den
               ELSE LET num == 7 * avgNum * required + 3 * matched * avgDen
                        den == 10 * avgDen * required
                    IN  IF num > den
                        THEN r.match_rate.num = r.match_rate.den
                        ELSE r.match_rate.num * den = num * r.match_rate.den
            /\ r.match_rate_percent \in 0..100
            /\ LET diff == r.match_rate_percent * r.match_rate.den - 100 * r.match_rate.num
               IN  /\ 2 * diff <= r.match_rate.den
                   /\ 2 * diff >= 0 - r.match_rate.den
            /\ \A d \in 1..Len(sum_out) : sum_out[d].result = r

C20_Witness ==
    /\ Len(sum_out) = 2
    /\ sum_out[1].job_description # sum_out[2].job_description
    /\ sum_in.analysis.required_skills = <<"Py", "aws">>
    /\ sum_in.matches = <<ResumeMatch(<<"Py">>, 1), ResumeMatch(<<>>, 2)>>
    /\ sum_out[2].result.matched_skills = <<"py">>
    /\ sum_out[2].result.missing_skills = <<"aws">>
    /\ sum_out[2].result.match_rate_percent = 41

\* =========================================================================
\* Part 12: SupabaseVectorService.similarity_search
\* (src/src/services/vector_service.py:158-223).  A stored resume is known
\* by the cosine similarity of its embedding to the query embedding, one of
\* the fractions k/ScoreSteps of [-1, 1]; cosine distance is 1 - similarity.
\* =========================================================================
MaxResumes == 3         \* resumes held by the backend
MaxTopK == 3            \* top_k is drawn from 1..MaxTopK

Backends == {"collection", "memory"}
Similarities == (0 - ScoreSteps)..ScoreSteps
StoredResumes ==
    UNION {[1..n -> Similarities] : n \in 0..MaxResumes}

\* similarity >= settings.min_similarity_threshold (0.5)
at_least_threshold(similarity) == 2 * similarity >= ScoreSteps

SearchMatch(resume_id, similarity_score) ==
    [resume_id |-> resume_id, similarity_score |-> similarity_score]

\* ResumeMatch.similarity_score: Field(ge=0.0, le=1.0)
ValidScore(similarity_score) == similarity_score >= 0 /\ similarity_score <= ScoreSteps

\* results.sort(key=lambda x: x.similarity_score, reverse=True): a stable
\* sort, equal scores keep their order
RECURSIVE InsertDesc(_, _)
InsertDesc(sorted_part, x) ==
    IF sorted_part = <<>> THEN <<x>>
    ELSE IF Head(sorted_part).similarity_score >= x.similarity_score
         THEN <<Head(sorted_part)>> \o InsertDesc(Tail(sorted_part), x)
         ELSE <<x>> \o sorted_part

RECURSIVE SortDesc(_)
SortDesc(results) ==
    IF results = <<>> THEN <<>>
    ELSE InsertDesc(SortDesc(SubSeq(results, 1, Len(results) - 1)),
                    results[Len(results)])

\* results[:top_k] for top_k >= 1
FirstK(results, top_k) ==
    SubSeq(results, 1, IF Len(results) < top_k THEN Len(results) ELSE top_k)

\* self.collection.query(data, limit=top_k, measure="cosine_distance"): the
\* limit nearest records, nearest first, each with its distance
collection_query(store, limit) ==
    LET nearest == FirstK(SortDesc([i \in 1..Len(store) |-> SearchMatch(i, store[i])]),
                          limit)
    IN  [j \in 1..Len(nearest) |->
            [id |-> nearest[j].resume_id,
             distance |-> ScoreSteps - nearest[j].similarity_score]]

\* lines 165-186: every record of the collection becomes a ResumeMatch with
\* similarity_score = 1.0 - distance; a score outside [0, 1] fails the
\* validation of ResumeMatch and the search raises VectorDatabaseException
search_collection(store, top_k) ==
    LET results == collection_query(store, top_k)
        matches == [j \in 1..Len(results) |->
                       SearchMatch(results[j].id, ScoreSteps - results[j].distance)]
    IN  IF \E j \in 1..Len(matches) : ~ValidScore(matches[j].similarity_score)
        THEN [kind |-> "raises", matches |-> <<>>]
        ELSE [kind |-> "ok", matches |-> matches]

\* lines 188-216: the in-memory fallback
search_memory(store, top_k) ==
    LET all == [i \in 1..Len(store) |-> SearchMatch(i, store[i])]
        results == SelectSeq(all, LAMBDA m : at_least_threshold(m.similarity_score))
    IN  [kind |-> "ok", matches |-> FirstK(SortDesc(results), top_k)]

similarity_search(backend, store, top_k) ==
    IF backend = "collection" THEN search_collection(store, top_k)
    ELSE search_memory(store, top_k)

SearchInit ==
    /\ search_in \in {[backend |-> b, store |-> s, top_k |-> k] :
                         b \in Backends, s \in StoredResumes, k \in 1..MaxTopK}
    /\ search_out = <<>>
    /\ CoreUnused
    /\ PartUnused
    /\ FastUnused
    /\ ArtUnused
    /\ PoolUnused

\* await vector_service.similarity_search(query_embedding, top_k)
SimilaritySearch ==
    /\ search_out = <<>>
    /\ search_out' = <<similarity_search(search_in.backend, search_in.store,
                                         search_in.top_k)>>
    /\ UNCHANGED search_in
    /\ UNCHANGED <<coreVars, partVars, fastVars, artVars, poolVars>>

SearchNext == SimilaritySearch

SpecSearch == SearchInit /\ [][SearchNext]_vars

\* ---------------------------------------------- properties of SpecSearch
Searched == search_out # <<>> /\ search_out[1].kind = "ok"
TheMatches == search_out[1].matches
Returned_ids == {TheMatches[j].resume_id : j \in 1..Len(TheMatches)}

\* C21: on both backend paths a search that returns gives at most top_k
\* matches, each with similarity at least the minimum threshold, sorted by
\* similarity descending, and no resume left out that reaches the threshold
\* has a higher similarity than a returned one.
C21_SimilaritySearch ==
    Searched =>
        /\ Len(TheMatches) <= search_in.top_k
        /\ \A j \in 1..Len(TheMatches) :
               /\ TheMatches[j].similarity_score = search_in.store[TheMatches[j].resume_id]
               /\ 2 * TheMatches[j].similarity_score >= ScoreSteps
        /\ \A j \in 1..(Len(TheMatches) - 1) :
               TheMatches[j].similarity_score >= TheMatches[j + 1].similarity_score
        /\ \A i \in 1..Len(search_in.store) :
               (i \notin Returned_ids /\ 2 * search_in.store[i] >= ScoreSteps) =>
                   /\ Len(TheMatches) = search_in.top_k
                   /\ \A j \in 1..Len(TheMatches) :
                          TheMatches[j].similarity_score >= search_in.store[i]

\* =========================================================================
\* Part 13: the FastMCP server (src/src/main_fastmcp.py): the two module
\* level registries _job_descriptions and _matched_resumes and the tools
\* and the resource that use them.  A dict is the sequence of its items in
\* insertion order; an id f"job_{datetime.now().isoformat()}" is the pair of
\* its literal prefix and the clock value it was formatted from.
\* =========================================================================
MaxFmTime == 2          \* datetime.now() runs over 0..MaxFmTime
MaxUploads == 3         \* upload_job_description calls that succeed
MaxSearches == 2        \* search_matching_resumes calls that store matches

JobTexts == {"", " ", "jd A", "jd B"}
InputTypes == {"text", "file", "url"}
\* result.matches of a search: no match, one match, two matches
MatchLists == {<<>>, <<"resume_1">>, <<"resume_1", "resume_2">>}

\* not job_description_text.strip()
Blank(text) == text \in {"", " "}

job_key(t) == <<"job_", t>>
search_key_job(t) == <<"job_", t>>
search_key(t) == <<"search_", t>>

\* d[key] = value: a present key keeps its place
DictSet(d, key, value) ==
    IF \E i \in 1..Len(d) : d[i].key = key
    THEN [i \in 1..Len(d) |-> IF d[i].key = key THEN [key |-> key, value |-> value]
                              ELSE d[i]]
    ELSE Append(d, [key |-> key, value |-> value])

DictKeys(d) == {d[i].key : i \in 1..Len(d)}
\* d.get(key, default)
DictGet(d, key, default) ==
    IF key \in DictKeys(d) THEN (CHOOSE i \in 1..Len(d) : d[i].key = key) ELSE default

\* lines 238-248: the list built by list_matched_job_descriptions
list_matched_job_descriptions ==
    [i \in 1..Len(job_descriptions) |->
        LET job_id == job_descriptions[i].key
            at == DictGet(matched_resumes, job_id, 0)
            matches == IF at = 0 THEN <<>> ELSE matched_resumes[at].value
        IN  [job_id |-> job_id,
             text_preview |-> job_descriptions[i].value.text,
             uploaded_at |-> job_descriptions[i].value.uploaded_at,
             input_type |-> job_descriptions[i].value.input_type,
             has_matches |-> Len(matches) > 0,
             match_count |-> Len(matches)]]

\* lines 452-465: the job a read of resume://job/{job_id} returns
job_description_resource(job_id) ==
    LET at == DictGet(job_descriptions, job_id, 0)
    IN  IF at = 0 THEN [status |-> "error", text |-> ""]
        ELSE [status |-> "success", text |-> job_descriptions[at].value.text]

NoFmOut == [op |-> "none", status |-> "", job_id |-> <<>>, jobs |-> <<>>, text |-> ""]

FastInit ==
    /\ job_descriptions = <<>>
    /\ matched_resumes = <<>>
    /\ fm_now = 0
    /\ uploads = <<>>
    /\ fm_out = NoFmOut
    /\ CoreUnused
    /\ PartUnused
    /\ SearchUnused
    /\ ArtUnused
    /\ PoolUnused

FastFrame == UNCHANGED <<coreVars, partVars, searchVars, artVars, poolVars>>

\* upload_job_description (lines 64-150): the parsed text is stored under an
\* id made from the clock; an empty text raises FileUploadException
UploadJobDescription(input_type, text) ==
    /\ Len(uploads) < MaxUploads
    /\ IF Blank(text)
       THEN /\ fm_out' = [NoFmOut EXCEPT !.op = "upload", !.status = "raises"]
            /\ UNCHANGED <<job_descriptions, uploads>>
       ELSE LET job_id == job_key(fm_now)
            IN  /\ job_descriptions' =
                        DictSet(job_descriptions, job_id,
                                [id |-> job_id, text |-> text, uploaded_at |-> fm_now,
                                 input_type |-> input_type])
                /\ uploads' = Append(uploads, [job_id |-> job_id, text |-> text])
                /\ fm_out' = [NoFmOut EXCEPT !.op = "upload", !.status = "success",
                                             !.job_id = job_id, !.text = text]
    /\ UNCHANGED <<matched_resumes, fm_now>>
    /\ FastFrame

\* search_matching_resumes (lines 152-218): the matches of a successful
\* search are stored under an id made from the clock
SearchMatchingResumes(job_description, matches) ==
    /\ Len(matched_resumes) < MaxSearches
    /\ IF Blank(job_description)
       THEN /\ fm_out' = [NoFmOut EXCEPT !.op = "search", !.status = "error"]
            /\ UNCHANGED matched_resumes
       ELSE LET job_id == search_key(fm_now)
            IN  /\ matched_resumes' = DictSet(matched_resumes, job_id, matches)
                /\ fm_out' = [NoFmOut EXCEPT !.op = "search", !.status = "success",
                                             !.job_id = job_id]
    /\ UNCHANGED <<job_descriptions, uploads, fm_now>>
    /\ FastFrame

\* list_matched_job_descriptions (lines 221-267)
ListMatchedJobDescriptions ==
    /\ fm_out' = [NoFmOut EXCEPT !.op = "list", !.status = "success",
                                 !.jobs = list_matched_job_descriptions]
    /\ fm_out' # fm_out
    /\ UNCHANGED <<job_descriptions, matched_resumes, uploads, fm_now>>
    /\ FastFrame

\* a read of resume://job/{job_id} (lines 437-478) with an id an upload
\* returned
JobDescriptionResource(u) ==
    /\ u \in 1..Len(uploads)
    /\ LET r == job_description_resource(uploads[u].job_id)
       IN  fm_out' = [NoFmOut EXCEPT !.op = "read", !.status = r.status,
                                     !.job_id = uploads[u].job_id, !.text = r.text]
    /\ fm_out' # fm_out
    /\ UNCHANGED <<job_descriptions, matched_resumes, uploads, fm_now>>
    /\ FastFrame

\* datetime.now() moves on
FmTick ==
    /\ fm_now < MaxFmTime
    /\ fm_now' = fm_now + 1
    /\ UNCHANGED <<job_descriptions, matched_resumes, uploads, fm_out>>
    /\ FastFrame

FastNext ==
    \/ \E input_type \in InputTypes, text \in JobTexts :
            UploadJobDescription(input_type, text)
    \/ \E job_description \in JobTexts, matches \in MatchLists :
            SearchMatchingResumes(job_description, matches)
    \/ ListMatchedJobDescriptions
    \/ \E u \in 1..MaxUploads : JobDescriptionResource(u)
    \/ FmTick

SpecFast == FastInit /\ [][FastNext]_vars

\* ---------------------------------------------- properties of SpecFast
\* C22: after any sequence of successful uploads the list has one entry per
\* upload, and a read of resume://job/{job_id} with the id an upload
\* returned gives the text of that upload.
C22_UploadsKept ==
    /\ Len(list_matched_job_descriptions) = Len(uploads)
    /\ \A u \in 1..Len(uploads) :
           job_description_resource(uploads[u].job_id)
               = [status |-> "success", text |-> uploads[u].text]
    /\ (fm_out.op = "read" /\ \E u \in 1..Len(uploads) : uploads[u].job_id = fm_out.job_id)
           => \E u \in 1..Len(uploads) :
                  uploads[u].job_id = fm_out.job_id /\ uploads[u].text = fm_out.text

\* C30: the job registry and the match registry never share a key: job keys
\* start with "job_", match keys with "search_"; the list reports
\* has_matches = false and match_count = 0 for every job whatever was
\* searched; no step removes a key from either registry.
C30_RegistriesDisjoint ==
    /\ [](/\ \A k \in DictKeys(job_descriptions) : k[1] = "job_"
          /\ \A k \in DictKeys(matched_resumes) : k[1] = "search_"
          /\ DictKeys(job_descriptions) \cap DictKeys(matched_resumes) = {}
          /\ \A i \in 1..Len(list_matched_job_descriptions) :
                 /\ ~list_matched_job_descriptions[i].has_matches
                 /\ list_matched_job_descriptions[i].match_count = 0
          /\ fm_out.op = "list" =>
                 \A i \in 1..Len(fm_out.jobs) :
                     ~fm_out.jobs[i].has_matches /\ fm_out.jobs[i].match_count = 0)
    /\ [][/\ DictKeys(job_descriptions) \subseteq DictKeys(job_descriptions')
          /\ DictKeys(matched_resumes) \subseteq DictKeys(matched_resumes')]_vars

C30_Witness ==
    /\ fm_out.op = "list"
    /\ Len(fm_out.jobs) = 2
    /\ \E i \in 1..Len(matched_resumes) :
           /\ Len(matched_resumes[i].value) = 2
           /\ \E j \in 1..Len(job_descriptions) :
                  job_descriptions[j].key[2] = matched_resumes[i].key[2]

\* =========================================================================
\* Part 14: articles and documents in the database engine
\* (src/src/core/vector_database.py): add_article / update_article and the
\* published_at stamp, delete_document / delete_article with the default
\* soft_delete=True, and the listings get_documents / get_articles.
\* A NULL timestamp is 0; the clock starts at 1.
\* =========================================================================
MaxArticles == 2        \* add_article calls in one run
MaxDbTime == 3          \* datetime.now() runs over 1..MaxDbTime
MaxDbOps == 3           \* update and delete calls in one run

Statuses == {"draft", "published", "archived"}
StatusArgs == Statuses \cup {PyNone}

NoDbOp ==
    [op |-> "none", id |-> 0, status |-> PyNone, found |-> FALSE,
     was_status |-> PyNone, was_published |-> 0, at |-> 0, ops |-> 0,
     soft_docs |-> {}, soft_arts |-> {}]

\* the record of an operation; the sets of soft-deleted ids carry over
DbOp(op, id, status, at) ==
    [NoDbOp EXCEPT !.op = op, !.id = id, !.status = status, !.at = at,
                   !.ops = db_last.ops + 1,
                   !.soft_docs = db_last.soft_docs, !.soft_arts = db_last.soft_arts]

ArticleRow(id) == CHOOSE a \in art_rows : a.id = id
HasArticle(id) == \E a \in art_rows : a.id = id

\* add_article line 670: datetime.now() if status == "published" else None
published_at_on_add(status, t) == IF status = "published" THEN t ELSE 0

\* update_article lines 747-754: the SET list for a status argument
update_status(article, status, t) ==
    IF status = PyNone THEN article
    ELSE IF status = "published"
         THEN [article EXCEPT !.status = status, !.published_at = t]
         ELSE [article EXCEPT !.status = status]

\* delete_document lines 512-515: UPDATE documents SET deleted_at, is_current
soft_delete_document(rows, document_id, t) ==
    {IF doc.id = document_id
     THEN [doc EXCEPT !.deleted_at = t, !.is_current = FALSE]
     ELSE doc : doc \in rows}

\* get_documents lines 540-546: the SELECT filters
get_documents(user_id) ==
    {doc \in doc_rows : doc.user_id = user_id /\ doc.is_current /\ doc.deleted_at = 0}

\* get_articles lines 887-894: the SELECT filters
get_articles(user_id, status) ==
    {a \in art_rows : a.user_id = user_id /\ (status = PyNone \/ a.status = status)}

ArtInit ==
    /\ doc_rows = {}
    /\ art_rows = {}
    /\ db_now = 1
    /\ db_last = NoDbOp
    /\ CoreUnused
    /\ PartUnused
    /\ SearchUnused
    /\ FastUnused
    /\ PoolUnused

ArtFrame == UNCHANGED <<coreVars, partVars, searchVars, fastVars, poolVars>>

\* add_article (lines 601-677): a document row and an article row
AddArticle(user_id, status) ==
    /\ Cardinality(art_rows) < MaxArticles
    /\ LET id == Cardinality(art_rows) + 1
       IN  /\ doc_rows' = doc_rows \cup
                  {[id |-> id, user_id |-> user_id, deleted_at |-> 0, is_current |-> TRUE]}
           /\ art_rows' = art_rows \cup
                  {[id |-> id, user_id |-> user_id, document_id |-> id, status |-> status,
                    published_at |-> published_at_on_add(status, db_now)]}
           /\ db_last' = [DbOp("add_article", id, status, db_now) EXCEPT
                              !.found = TRUE, !.ops = db_last.ops]
    /\ UNCHANGED db_now
    /\ ArtFrame

\* update_article (lines 679-836) with a status argument or none
UpdateArticle(article_id, status) ==
    /\ db_last.ops < MaxDbOps
    /\ IF HasArticle(article_id)
       THEN /\ art_rows' = (art_rows \ {ArticleRow(article_id)})
                               \cup {update_status(ArticleRow(article_id), status, db_now)}
            /\ db_last' = [DbOp("update_article", article_id, status, db_now) EXCEPT
                               !.found = TRUE,
                               !.was_status = ArticleRow(article_id).status,
                               !.was_published = ArticleRow(article_id).published_at]
       ELSE /\ UNCHANGED art_rows
            /\ db_last' = DbOp("update_article", article_id, status, db_now)
    /\ UNCHANGED <<doc_rows, db_now>>
    /\ ArtFrame

\* delete_document(document_id) with the default soft_delete=True
DeleteDocument(document_id) ==
    /\ db_last.ops < MaxDbOps
    /\ doc_rows' = soft_delete_document(doc_rows, document_id, db_now)
    /\ db_last' = [DbOp("delete_document", document_id, PyNone, db_now) EXCEPT
                       !.found = \E doc \in doc_rows : doc.id = document_id,
                       !.soft_docs = IF \E doc \in doc_rows : doc.id = document_id
                                     THEN db_last.soft_docs \cup {document_id}
                                     ELSE db_last.soft_docs]
    /\ UNCHANGED <<art_rows, db_now>>
    /\ ArtFrame

\* delete_article(article_id) with the default soft_delete=True (lines
\* 838-852): the article's document is soft-deleted; .single() raises when
\* there is no such article
DeleteArticle(article_id) ==
    /\ db_last.ops < MaxDbOps
    /\ IF HasArticle(article_id)
       THEN /\ doc_rows' = soft_delete_document(doc_rows,
                                                ArticleRow(article_id).document_id, db_now)
            /\ db_last' = [DbOp("delete_article", article_id, PyNone, db_now) EXCEPT
                               !.found = TRUE,
                               !.soft_docs = db_last.soft_docs
                                                \cup {ArticleRow(article_id).document_id},
                               !.soft_arts = db_last.soft_arts \cup {article_id}]
       ELSE /\ UNCHANGED doc_rows
            /\ db_last' = DbOp("delete_article", article_id, PyNone, db_now)
    /\ UNCHANGED <<art_rows, db_now>>
    /\ ArtFrame

DbTick ==
    /\ db_now < MaxDbTime
    /\ db_now' = db_now + 1
    /\ UNCHANGED <<doc_rows, art_rows, db_last>>
    /\ ArtFrame

ArtNext ==
    \/ \E user_id \in UserIds, status \in Statuses : AddArticle(user_id, status)
    \/ \E id \in 1..MaxArticles, status \in StatusArgs : UpdateArticle(id, status)
    \/ \E id \in 1..MaxArticles : DeleteDocument(id)
    \/ \E id \in 1..MaxArticles : DeleteArticle(id)
    \/ DbTick

SpecArt == ArtInit /\ [][ArtNext]_vars

\* ---------------------------------------------- properties of SpecArt
\* C23: published_at is written only by an operation that moves the status
\* from a non-published value to published: add_article with status
\* published stamps it, update_article stamps it when the status changes to
\* published, and update_article on an already published article leaves it
\* unchanged.
C23_PublishedAt ==
    /\ (db_last.op = "add_article") =>
           ArticleRow(db_last.id).published_at
               = (IF db_last.status = "published" THEN db_last.at ELSE 0)
    /\ (db_last.op = "update_article" /\ db_last.found) =>
           ArticleRow(db_last.id).published_at
               = (IF db_last.was_status # "published" /\ db_last.status = "published"
                  THEN db_last.at
                  ELSE db_last.was_published)

\* C24: a soft delete removes no row and marks the document deleted
\* (deleted_at set, is_current false); afterwards get_documents and
\* get_articles of the owner return neither the deleted document nor the
\* deleted article.
C24_SoftDeleteExcluded ==
    /\ \A d \in db_last.soft_docs :
           \E doc \in doc_rows :
               /\ doc.id = d /\ doc.deleted_at # 0 /\ ~doc.is_current
               /\ doc \notin get_documents(doc.user_id)
    /\ \A a \in db_last.soft_arts :
           /\ HasArticle(a)
           /\ \A status \in StatusArgs :
                  ArticleRow(a) \notin get_articles(ArticleRow(a).user_id, status)

\* =========================================================================
\* Part 15: the PostgreSQL pool of the database engine
\* (src/src/core/vector_database.py init_pool, close_pool,
\* _fix_profile_data_trigger).  init_pool is a coroutine: it tests
\* self.pg_pool, then awaits asyncpg.create_pool, assigns the result and
\* awaits the trigger patch; other coroutines run at each await.
\* pg_pool = 0 is None, a positive number names the pool object.
\* =========================================================================
NumInitCallers == 2     \* coroutines calling init_pool
MaxInitCalls == 3       \* init_pool calls in one run

InitCallers == 1..NumInitCallers

NoPoolLog ==
    [calls |-> 0, created |-> 0, patched |-> 0, patch_failed |-> 0,
     returned |-> 0, raised |-> 0, closed |-> 0]

\* line 71: if not self.pg_pool
pool_missing(pool) == pool = 0

PoolInit ==
    /\ pg_pool = 0
    /\ init_pc = [c \in InitCallers |-> "idle"]
    /\ pool_log = NoPoolLog
    /\ CoreUnused
    /\ PartUnused
    /\ SearchUnused
    /\ FastUnused
    /\ ArtUnused

PoolFrame == UNCHANGED <<coreVars, partVars, searchVars, fastVars, artVars>>

\* init_pool up to its first await: the test of self.pg_pool (line 71)
InitPoolCall(c) ==
    /\ init_pc[c] = "idle"
    /\ pool_log.calls < MaxInitCalls
    /\ IF pool_missing(pg_pool)
       THEN /\ init_pc' = [init_pc EXCEPT ![c] = "creating"]
            /\ pool_log' = [pool_log EXCEPT !.calls = @ + 1]
       ELSE /\ UNCHANGED init_pc
            /\ pool_log' = [pool_log EXCEPT !.calls = @ + 1, !.returned = @ + 1]
    /\ UNCHANGED pg_pool
    /\ PoolFrame

\* asyncpg.create_pool returns and the result is assigned (lines 72-78)
CreatePool(c) ==
    /\ init_pc[c] = "creating"
    /\ pg_pool' = pool_log.created + 1
    /\ pool_log' = [pool_log EXCEPT !.created = @ + 1]
    /\ init_pc' = [init_pc EXCEPT ![c] = "patching"]
    /\ PoolFrame

\* asyncpg.create_pool raises: init_pool raises, self.pg_pool not assigned
CreatePoolFails(c) ==
    /\ init_pc[c] = "creating"
    /\ pool_log' = [pool_log EXCEPT !.raised = @ + 1]
    /\ init_pc' = [init_pc EXCEPT ![c] = "idle"]
    /\ UNCHANGED pg_pool
    /\ PoolFrame

\* _fix_profile_data_trigger (lines 88-121): the patch runs or fails; a
\* failure (an absent pool included) is caught and init_pool returns
FixProfileDataTrigger(c, ok) ==
    /\ init_pc[c] = "patching"
    /\ pool_log' = IF ok /\ ~pool_missing(pg_pool)
                   THEN [pool_log EXCEPT !.patched = @ + 1, !.returned = @ + 1]
                   ELSE [pool_log EXCEPT !.patch_failed = @ + 1, !.returned = @ + 1]
    /\ init_pc' = [init_pc EXCEPT ![c] = "idle"]
    /\ UNCHANGED pg_pool
    /\ PoolFrame

\* close_pool (lines 82-86)
ClosePool ==
    /\ ~pool_missing(pg_pool)
    /\ pool_log.closed = 0
    /\ pg_pool' = 0
    /\ pool_log' = [pool_log EXCEPT !.closed = @ + 1]
    /\ UNCHANGED init_pc
    /\ PoolFrame

PoolNext ==
    \/ \E c \in InitCallers : InitPoolCall(c)
    \/ \E c \in InitCallers : CreatePool(c)
    \/ \E c \in InitCallers : CreatePoolFails(c)
    \/ \E c \in InitCallers, ok \in BOOLEAN : FixProfileDataTrigger(c, ok)
    \/ ClosePool

SpecPool == PoolInit /\ [][PoolNext]_vars

\* --------------------------------------------- properties of SpecPool
\* C26: for any sequence or interleaving of init_pool calls (no close_pool
\* in between) at most one pool is ever created and the trigger patch is
\* attempted at most once; a failing trigger patch does not make init_pool
\* raise: every call that got its pool returns.
C26_InitOnce ==
    (pool_log.closed = 0) =>
        /\ pool_log.created <= 1
        /\ pool_log.patched + pool_log.patch_failed <= 1
        /\ (\A c \in InitCallers : init_pc[c] = "idle") =>
               pool_log.returned + pool_log.raised = pool_log.calls

\* =========================================================================
\* Part 16: recreating embeddings (update_document lines 485-506 and the
\* same block of update_article, update_profile_data,
\* update_personal_attribute).  The calls of Part 9 run against a database
\* that already holds document 1, written as call 1 by an engine that had
\* the models of StoredModels loaded; it may belong to an article or a
\* profile_data row.
\* =========================================================================
StoredOwners == {"none", "article", "profile_data", "personal_attribute"}

StoredTables(kind, models, chunks) ==
    [documents |-> {[id |-> 1, v |-> 1]},
     owners |-> IF kind = "none" THEN {}
                ELSE {[kind |-> kind, id |-> 1, document_id |-> 1, v |-> 1]},
     embeddings |-> {[document_id |-> 1, model |-> m, chunk_index |-> i,
                      total_chunks |-> chunks, v |-> 1] :
                         m \in models, i \in 0..(chunks - 1)}]

RecreateInit ==
    /\ \E kind \in StoredOwners, models \in SUBSET StoredModels,
          chunks \in 1..MaxTxChunks :
            tables = StoredTables(kind, models, chunks)
    /\ tx = NoTx
    /\ before = tables
    /\ outcome = [NoOutcome EXCEPT !.calls = 1]
    /\ CoreUnused
    /\ ExtUnused
    /\ McpUnused
    /\ StreamUnused
    /\ SlugUnused
    /\ ChunkUnused
    /\ SumUnused

SpecRecreate == RecreateInit /\ [][TxNext]_vars

\* the embedding rows of a document and the models they were made with
EmbeddingsOf(t, doc) == {e \in t.embeddings : e.document_id = doc}
ModelsOf(t, doc) == {e.model : e \in EmbeddingsOf(t, doc)}

\* ------------------------------------------ properties of SpecRecreate
\* C25: after a committed update with new content and
\* recreate_embeddings=true, every embedding of the document was made by
\* this call from the new content, each model has exactly one row per chunk
\* with chunk_index 0..total_chunks-1, and the models the document has
\* embeddings for are the models it had embeddings for before the call.
C25_RecreateEmbeddings ==
    (/\ outcome.last = "committed"
     /\ outcome.op \in UpdateOps
     /\ outcome.recreate
     /\ outcome.doc # 0) =>
        /\ \A e \in EmbeddingsOf(tables, outcome.doc) :
               /\ e.v = outcome.calls
               /\ e.total_chunks = outcome.chunks
               /\ e.chunk_index \in 0..(outcome.chunks - 1)
        /\ \A m \in ModelsOf(tables, outcome.doc) :
               \A i \in 0..(outcome.chunks - 1) :
                   Cardinality({e \in EmbeddingsOf(tables, outcome.doc) :
                                   e.model = m /\ e.chunk_index = i}) = 1
        /\ ModelsOf(tables, outcome.doc) = ModelsOf(before, outcome.doc)

====
